---- MODULE Spec2Model ----
(***************************************************************************)
(* Credit accounting core of regen-ledger's ecocredit module:              *)
(* Keeper.Send / Keeper.Retire / Keeper.Cancel acting on the BatchBalance  *)
(* and BatchSupply tables.                                                 *)
(*                                                                         *)
(* A message handler is a synchronous loop over req.Credits.  The loop is  *)
(* modelled with a position (pc, idx): one step is one whole iteration of  *)
(* the loop body (all reads, checks, writes, events and the gas charge of  *)
(* that entry); no other handler runs while a call is in progress.         *)
(*                                                                         *)
(* A behaviour is one handler call, from its entry to its return, on a     *)
(* store drawn from a family of stores: stores as a genesis import leaves  *)
(* them and stores as earlier calls leave them.  What a sequence of calls  *)
(* does follows call by call.                                              *)
(***************************************************************************)
EXTENDS Integers, Sequences, FiniteSets, TLC

\* ------------------------------------------------------------------ bounds
MaxEntries == 2   \* longest req.Credits list
MaxAmount  == 1   \* largest whole amount a request names

\* ----------------------------------------------------------- decimal engine
\* An amount at rest is a string.  A well-formed base-10 string is the pair
\* coefficient c / fractional digit count d ("1.50" is c = 150, d = 2); ""
\* and a non-numeric string are the two other strings the tables can hold.
DecStr(c, d) == [s |-> "dec", c |-> c, d |-> d]
EmptyStr     == [s |-> "empty", c |-> 0, d |-> 0]
BadStr       == [s |-> "nan", c |-> 0, d |-> 0]

RECURSIVE Pow10(_)
Pow10(n) == IF n <= 0 THEN 1 ELSE 10 * Pow10(n - 1)

MaxOf(a, b) == IF a >= b THEN a ELSE b

\* an in-memory Dec: exact coefficient and exponent
Dec(c, d) == [c |-> c, d |-> d]
ZeroDec   == Dec(0, 0)

Scaled(x, d) == x.c * Pow10(d - x.d)

Add(x, y) ==
  LET d == MaxOf(x.d, y.d) IN Dec(Scaled(x, d) + Scaled(y, d), d)

Sub(x, y) ==
  LET d == MaxOf(x.d, y.d) IN Dec(Scaled(x, d) - Scaled(y, d), d)

\* -1, 0, 1
Cmp(x, y) ==
  LET d == MaxOf(x.d, y.d) IN
  IF Scaled(x, d) < Scaled(y, d) THEN -1
  ELSE IF Scaled(x, d) = Scaled(y, d) THEN 0 ELSE 1

IsZero(x)     == x.c = 0
IsNegative(x) == x.c < 0

\* Dec.String(): plain notation, the exponent is kept ("1.50" stays "1.50")
String(x) == DecStr(x.c, x.d)

Ok(v)     == [err |-> "", v |-> v]
Error(k)  == [err |-> k, v |-> ZeroDec]

NewNonNegativeFixedDecFromString(str, max) ==
  IF str.s # "dec" THEN Error("InvalidAmount")
  ELSE IF str.c < 0 THEN Error("InvalidAmount")
  ELSE IF str.d > max THEN Error("PrecisionExceeded")
  ELSE Ok(Dec(str.c, str.d))

SafeSubBalance(x, y) ==
  LET r == Sub(x, y) IN
  IF IsNegative(r) THEN Error("InsufficientBalance") ELSE Ok(r)

\* GetNonNegativeFixedDecs: parse every string at the precision, in order;
\* the first failure is the error of the whole call.
RECURSIVE FirstErr(_, _, _)
FirstErr(strs, max, i) ==
  IF i > Len(strs) THEN ""
  ELSE LET p == NewNonNegativeFixedDecFromString(strs[i], max) IN
       IF p.err # "" THEN p.err ELSE FirstErr(strs, max, i + 1)

GetNonNegativeFixedDecs(max, strs) ==
  [err  |-> FirstErr(strs, max, 1),
   decs |-> [i \in 1..Len(strs) |->
               NewNonNegativeFixedDecFromString(strs[i], max).v]]

\* ------------------------------------------------------------------ store
Holders == {"h1", "h2", "h3"}
Batches == {"B1", "B2"}
Denoms  == Batches \cup {"B9"}          \* "B9" names no batch

\* GetCreditTypeFromBatchDenom(...).Precision, by batch
Precision == [b \in Batches |-> IF b = "B1" THEN 2 ELSE 0]

NoRecord == [exists |-> FALSE]

BatchBalance(t, r, e) ==
  [exists |-> TRUE, TradableAmount |-> t, RetiredAmount |-> r,
   EscrowedAmount |-> e]

BatchSupply(t, r, c) ==
  [TradableAmount |-> t, RetiredAmount |-> r, CancelledAmount |-> c]

VARIABLES
  balance,   \* BatchBalanceTable: holder -> batch -> record or NoRecord
  supply,    \* BatchSupplyTable: batch -> record
  basket,    \* BasketBalance per batch (read-only here)
  pc,        \* "idle", or the handler whose loop is running
  req,       \* the request of the current / last call
  idx,       \* entries of req.Credits processed by the current / last call
  entry,     \* the entry processed last
  err,       \* error returned by the entry processed last ("" if none)
  ret,       \* result of the last call: "none", "ok", "err"
  log,       \* store writes, events and gas charges of the current / last call
  callPre,   \* tables at the start of the current / last call
  entryPre,  \* tables at the start of the entry processed last
  genesis,   \* a run of ValidateGenesis: snapshot, position, locals, error
  createProject, \* a call of MsgCreateProject.ValidateBasic: message, result
  randomExponent \* a call of RandomExponent: precision, last draw, result

vars == <<balance, supply, basket, pc, req, idx, entry, err, ret, log,
          callPre, entryPre, genesis, createProject, randomExponent>>

\* no run of ValidateGenesis, no call of ValidateBasic or RandomExponent
NoGenesis == [pc |-> "none"]
NoCall    == [pc |-> "none"]

Tables == [balance |-> balance, supply |-> supply]

\* value of a stored amount, "" read as zero (as the genesis validator does)
ValueOf(str) == IF str.s = "dec" THEN Dec(str.c, str.d) ELSE ZeroDec

RECURSIVE SumDec(_, _)
SumDec(f, hs) ==
  IF hs = {} THEN ZeroDec
  ELSE LET h == CHOOSE x \in hs : TRUE IN Add(f[h], SumDec(f, hs \ {h}))

HeldOf(rec) ==
  IF ~rec.exists THEN ZeroDec
  ELSE Add(Add(ValueOf(rec.TradableAmount), ValueOf(rec.RetiredAmount)),
           ValueOf(rec.EscrowedAmount))
TradableOf(rec) == IF rec.exists THEN ValueOf(rec.TradableAmount) ELSE ZeroDec
RetiredOf(rec)  == IF rec.exists THEN ValueOf(rec.RetiredAmount) ELSE ZeroDec
EscrowedOf(rec) == IF rec.exists THEN ValueOf(rec.EscrowedAmount) ELSE ZeroDec

\* sum over all holders of tradable + retired + escrowed, plus the basket
CalculatedSupply(bal, bsk, b) ==
  Add(SumDec([h \in Holders |-> HeldOf(bal[h][b])], Holders), ValueOf(bsk[b]))

\* BatchSupply.tradable + BatchSupply.retired
DeclaredSupply(sup, b) ==
  Add(ValueOf(sup[b].TradableAmount), ValueOf(sup[b].RetiredAmount))

TotalSupply(sup, b) ==
  Add(DeclaredSupply(sup, b), ValueOf(sup[b].CancelledAmount))

\* ------------------------------------------------------------ log entries
\* all validations of entry i are over (k = "" when they passed)
Validated(i, k) == [op |-> "validate", i |-> i, err |-> k]
Write(tbl, key) == [op |-> "write", tbl |-> tbl, key |-> key]
Emit(ev)        == [op |-> "event", ev |-> ev]
ConsumeGas(i)   == [op |-> "gas", i |-> i]

EventTransfer(sender, recipient, credit) ==
  [type |-> "EventTransfer", Sender |-> sender, Recipient |-> recipient,
   BatchDenom |-> credit.BatchDenom,
   TradableAmount |-> credit.TradableAmount,
   RetiredAmount |-> credit.RetiredAmount]

EventRetire(owner, denom, amount, jurisdiction) ==
  [type |-> "EventRetire", Owner |-> owner, BatchDenom |-> denom,
   Amount |-> amount, Jurisdiction |-> jurisdiction]

EventCancel(owner, denom, amount, reason) ==
  [type |-> "EventCancel", Owner |-> owner, BatchDenom |-> denom,
   Amount |-> amount, Reason |-> reason]

\* faulty variant of SetBalance: the record is written for every batch of
\* the holder
SetBalanceEveryBatch(bal, h, b, rec) ==
  [bal EXCEPT ![h] = [x \in DOMAIN bal[h] |-> rec]]

\* BatchBalanceTable().Save / Update: the whole record is replaced by the
\* message given; a field the message does not set is the empty string.
SetBalance(bal, h, b, rec) == [bal EXCEPT ![h][b] = rec]
SetSupply(sup, b, rec)     == [sup EXCEPT ![b] = rec]

\* result of one loop iteration
Failed(i, k, bal, sup) ==
  [err |-> k, balance |-> bal, supply |-> sup, out |-> <<Validated(i, k)>>]

\* ------------------------------------------------------------------- Send
\* the record saved for the recipient
sendToBalance(toTradableBalance, toRetiredBalance) ==
  BatchBalance(String(toTradableBalance), String(toRetiredBalance), EmptyStr)

\* faulty variant of sendFromBalance: the retired balance is not written back
sendFromBalanceNoRetired(fromTradableBalance, fromRetiredBalance) ==
  BatchBalance(String(fromTradableBalance), EmptyStr, EmptyStr)

\* the record written for the sender
sendFromBalance(fromTradableBalance, fromRetiredBalance) ==
  BatchBalance(String(fromTradableBalance), String(fromRetiredBalance),
               EmptyStr)

\* faulty variant of sendFromNotFound: a zero record has been saved for every
\* holder without one before the error is returned
sendFromNotFoundAfterSave(i, bal, sup) ==
  Failed(i, "ErrInsufficientCredits",
         [h \in DOMAIN bal |->
            [b \in DOMAIN bal[h] |->
               IF bal[h][b].exists THEN bal[h][b]
               ELSE BatchBalance(DecStr(0, 0), DecStr(0, 0), EmptyStr)]],
         sup)

\* faulty variant of sendFromNotFound: the store's error is returned as it is
sendFromNotFoundUnwrapped(i, bal, sup) == Failed(i, "NotFound", bal, sup)

\* the sender has no balance record for the batch
sendFromNotFound(i, bal, sup) == Failed(i, "ErrInsufficientCredits", bal, sup)

\* faulty variant of sendDefaultToBalance: the amounts are left unset
sendDefaultToBalanceUnset == BatchBalance(EmptyStr, EmptyStr, EmptyStr)

\* the balance of a recipient that has no record for the batch
sendDefaultToBalance == BatchBalance(DecStr(0, 0), DecStr(0, 0), EmptyStr)

\* faulty variant of sendRetireDebit: the subtraction is not checked
sendRetireDebitUnchecked(fromTradableBalance, sendAmtRetired) ==
  Ok(Sub(fromTradableBalance, sendAmtRetired))

\* the retired amount is subtracted from the sender's tradable balance
sendRetireDebit(fromTradableBalance, sendAmtRetired) ==
  SafeSubBalance(fromTradableBalance, sendAmtRetired)

\* faulty variant of sendDidRetire: every send counts as a retirement
sendDidRetireAlways(sendAmtRetired) == TRUE

\* didRetire: set when the retired amount of the entry is not zero
sendDidRetire(sendAmtRetired) == ~IsZero(sendAmtRetired)

\* faulty variant of sendSupply: the tradable supply is not debited
sendSupplyNoDebit(batchSupply, batchSupplyTradable, batchSupplyRetired) ==
  BatchSupply(batchSupply.TradableAmount, String(batchSupplyRetired),
              batchSupply.CancelledAmount)

\* the supply record written when credits were retired on receipt
sendSupply(batchSupply, batchSupplyTradable, batchSupplyRetired) ==
  BatchSupply(String(batchSupplyTradable), String(batchSupplyRetired),
              batchSupply.CancelledAmount)

\* the retire event of a send
sendEventRetire(to, credit, sendAmtRetired) ==
  EventRetire(to, credit.BatchDenom, String(sendAmtRetired),
              credit.RetirementJurisdiction)

\* sendEcocredits: the to-balance is saved first, the from-balance second.
sendEcocredits(bal, sup, credit, to, from, i) ==
  IF credit.BatchDenom \notin Batches
  THEN Failed(i, "ErrInvalidRequest", bal, sup)
  ELSE
  LET b           == credit.BatchDenom
      precision   == Precision[b]
      batchSupply == sup[b]
      fromBalance == bal[from][b]
  IN
  IF ~fromBalance.exists
  THEN sendFromNotFound(i, bal, sup)
  ELSE
  LET toBalance == IF bal[to][b].exists THEN bal[to][b]
                   ELSE sendDefaultToBalance
      parsed == GetNonNegativeFixedDecs(precision,
                  <<toBalance.TradableAmount, toBalance.RetiredAmount,
                    fromBalance.TradableAmount, fromBalance.RetiredAmount,
                    credit.TradableAmount, credit.RetiredAmount,
                    batchSupply.TradableAmount, batchSupply.RetiredAmount>>)
  IN
  IF parsed.err # "" THEN Failed(i, parsed.err, bal, sup)
  ELSE
  LET decs                == parsed.decs
      toTradableBalance0   == decs[1]
      toRetiredBalance0    == decs[2]
      fromTradableBalance0 == decs[3]
      fromRetiredBalance   == decs[4]
      sendAmtTradable      == decs[5]
      sendAmtRetired       == decs[6]
      batchSupplyTradable0 == decs[7]
      batchSupplyRetired0  == decs[8]
      sub1 == IF ~IsZero(sendAmtTradable)
              THEN SafeSubBalance(fromTradableBalance0, sendAmtTradable)
              ELSE Ok(fromTradableBalance0)
  IN
  IF sub1.err # "" THEN Failed(i, sub1.err, bal, sup)
  ELSE
  LET toTradableBalance == IF ~IsZero(sendAmtTradable)
                           THEN Add(toTradableBalance0, sendAmtTradable)
                           ELSE toTradableBalance0
      didRetire == sendDidRetire(sendAmtRetired)
      sub2 == IF didRetire THEN sendRetireDebit(sub1.v, sendAmtRetired)
              ELSE sub1
  IN
  IF sub2.err # "" THEN Failed(i, sub2.err, bal, sup)
  ELSE
  LET fromTradableBalance == sub2.v
      toRetiredBalance    == IF didRetire
                             THEN Add(toRetiredBalance0, sendAmtRetired)
                             ELSE toRetiredBalance0
      batchSupplyRetired  == Add(batchSupplyRetired0, sendAmtRetired)
      batchSupplyTradable == Sub(batchSupplyTradable0, sendAmtRetired)
      bal1 == SetBalance(bal, to, b,
                sendToBalance(toTradableBalance, toRetiredBalance))
      bal2 == SetBalance(bal1, from, b,
                sendFromBalance(fromTradableBalance, fromRetiredBalance))
      sup1 == IF didRetire
              THEN SetSupply(sup, b,
                     sendSupply(batchSupply, batchSupplyTradable,
                                batchSupplyRetired))
              ELSE sup
  IN
  [err |-> "", balance |-> bal2, supply |-> sup1,
   out |-> <<Validated(i, ""),
             Write("BatchBalance", <<to, b>>),
             Write("BatchBalance", <<from, b>>)>>
           \o (IF didRetire
               THEN <<Write("BatchSupply", <<b>>),
                      Emit(sendEventRetire(to, credit, sendAmtRetired))>>
               ELSE <<>>)]

\* faulty variant of SendIteration: the transfer event is emitted before the
\* credits are sent
SendIterationTransferFirst(bal, sup, r, credit, i) ==
  LET res == sendEcocredits(bal, sup, credit, r.Recipient, r.Sender, i) IN
  IF res.err # "" THEN res
  ELSE [res EXCEPT !.out = <<@[1], Emit(EventTransfer(r.Sender, r.Recipient,
                                                      credit))>>
                           \o SubSeq(@, 2, Len(@)) \o <<ConsumeGas(i)>>]

\* faulty variant of SendIteration: the gas of the iteration is not charged
SendIterationNoGas(bal, sup, r, credit, i) ==
  LET res == sendEcocredits(bal, sup, credit, r.Recipient, r.Sender, i) IN
  IF res.err # "" THEN res
  ELSE [res EXCEPT !.out = @ \o <<Emit(EventTransfer(r.Sender, r.Recipient,
                                                    credit))>>]

\* faulty variant of SendIteration: no transfer event is emitted
SendIterationNoEvent(bal, sup, r, credit, i) ==
  LET res == sendEcocredits(bal, sup, credit, r.Recipient, r.Sender, i) IN
  IF res.err # "" THEN res
  ELSE [res EXCEPT !.out = @ \o <<ConsumeGas(i)>>]

\* one iteration of the loop of Keeper.Send
SendIteration(bal, sup, r, credit, i) ==
  LET res == sendEcocredits(bal, sup, credit, r.Recipient, r.Sender, i) IN
  IF res.err # "" THEN res
  ELSE [res EXCEPT !.out = @ \o <<Emit(EventTransfer(r.Sender, r.Recipient,
                                                    credit)),
                                  ConsumeGas(i)>>]

\* ----------------------------------------------------------------- Retire
\* faulty variant of retireParse: the strings are read without validation
retireParseUnvalidated(precision, credit, userBalance) ==
  [err  |-> "",
   decs |-> <<ValueOf(credit.Amount), ValueOf(userBalance.TradableAmount)>>]

\* the requested amount and the owner's tradable balance, parsed
retireParse(precision, credit, userBalance) ==
  GetNonNegativeFixedDecs(precision,
    <<credit.Amount, userBalance.TradableAmount>>)

\* faulty variant of retireUserTradable: the subtraction is not checked
retireUserTradableUnchecked(userTradableBalance, amtToRetire) ==
  Ok(Sub(userTradableBalance, amtToRetire))

\* the amount is subtracted from the owner's tradable balance
retireUserTradable(userTradableBalance, amtToRetire) ==
  SafeSubBalance(userTradableBalance, amtToRetire)

\* faulty variant of retireSupply: the cancelled supply is not written back
retireSupplyNoCancelled(batchSupply, supplyTradable, supplyRetired) ==
  BatchSupply(String(supplyTradable), String(supplyRetired), EmptyStr)

\* faulty variant of retireBalance: the two amounts are written to the wrong fields
retireBalanceSwapped(userTradableBalance, userRetiredBalance) ==
  BatchBalance(String(userRetiredBalance), String(userTradableBalance),
               EmptyStr)

\* the records and the event a retired entry writes
retireBalance(userTradableBalance, userRetiredBalance) ==
  BatchBalance(String(userTradableBalance), String(userRetiredBalance),
               EmptyStr)

retireSupply(batchSupply, supplyTradable, supplyRetired) ==
  BatchSupply(String(supplyTradable), String(supplyRetired),
              batchSupply.CancelledAmount)

retireEvent(r, credit) ==
  EventRetire(r.Owner, credit.BatchDenom, credit.Amount, r.Jurisdiction)

\* one iteration of the loop of Keeper.Retire
RetireIteration(bal, sup, r, credit, i) ==
  IF credit.BatchDenom \notin Batches
  THEN Failed(i, "ErrInvalidRequest", bal, sup)
  ELSE
  LET b           == credit.BatchDenom
      precision   == Precision[b]
      userBalance == bal[r.Owner][b]
  IN
  IF ~userBalance.exists THEN Failed(i, "ErrInvalidRequest", bal, sup)
  ELSE
  LET parsed == retireParse(precision, credit, userBalance)
  IN
  IF parsed.err # "" THEN Failed(i, parsed.err, bal, sup)
  ELSE
  LET amtToRetire == parsed.decs[1]
      sub1        == retireUserTradable(parsed.decs[2], amtToRetire)
  IN
  IF sub1.err # "" THEN Failed(i, sub1.err, bal, sup)
  ELSE
  LET userTradableBalance == sub1.v
      retired0 == NewNonNegativeFixedDecFromString(userBalance.RetiredAmount,
                                                   precision)
  IN
  IF retired0.err # "" THEN Failed(i, retired0.err, bal, sup)
  ELSE
  LET userRetiredBalance == Add(retired0.v, amtToRetire)
      batchSupply        == sup[b]
      parsed2 == GetNonNegativeFixedDecs(precision,
                   <<batchSupply.RetiredAmount, batchSupply.TradableAmount>>)
  IN
  IF parsed2.err # "" THEN Failed(i, parsed2.err, bal, sup)
  ELSE
  LET supplyRetired == Add(parsed2.decs[1], amtToRetire)
      sub2          == SafeSubBalance(parsed2.decs[2], amtToRetire)
  IN
  IF sub2.err # "" THEN Failed(i, sub2.err, bal, sup)
  ELSE
  LET supplyTradable == sub2.v IN
  [err |-> "",
   balance |-> SetBalance(bal, r.Owner, b,
                 retireBalance(userTradableBalance, userRetiredBalance)),
   supply |-> SetSupply(sup, b,
                retireSupply(batchSupply, supplyTradable, supplyRetired)),
   out |-> <<Validated(i, ""),
             Write("BatchBalance", <<r.Owner, b>>),
             Write("BatchSupply", <<b>>),
             Emit(retireEvent(r, credit)),
             ConsumeGas(i)>>]

\* ----------------------------------------------------------------- Cancel
\* faulty variant of cancelBalance: the debited amount is not written back
cancelBalanceNoDebit(userBalance, userBalTradable) ==
  BatchBalance(userBalance.TradableAmount, userBalance.RetiredAmount,
               EmptyStr)

\* faulty variant of cancelSupply: the retired and the cancelled supply are
\* written to each other's field
cancelSupplyMisplaced(batchSupply, supplyTradable, cancelledDec) ==
  BatchSupply(String(supplyTradable), String(cancelledDec),
              batchSupply.RetiredAmount)

\* faulty variant of cancelSupply: the cancelled supply is not increased
cancelSupplyNoCredit(batchSupply, supplyTradable, cancelledDec) ==
  BatchSupply(String(supplyTradable), batchSupply.RetiredAmount,
              batchSupply.CancelledAmount)

\* the records and the event a cancelled entry writes
cancelBalance(userBalance, userBalTradable) ==
  BatchBalance(String(userBalTradable), userBalance.RetiredAmount, EmptyStr)

cancelSupply(batchSupply, supplyTradable, cancelledDec) ==
  BatchSupply(String(supplyTradable), batchSupply.RetiredAmount,
              String(cancelledDec))

cancelEvent(r, credit) ==
  EventCancel(r.Owner, credit.BatchDenom, credit.Amount, r.Reason)

\* one iteration of the loop of Keeper.Cancel
CancelIteration(bal, sup, r, credit, i) ==
  IF credit.BatchDenom \notin Batches
  THEN Failed(i, "ErrInvalidRequest", bal, sup)
  ELSE
  LET b           == credit.BatchDenom
      precision   == Precision[b]
      userBalance == bal[r.Owner][b]
      batchSupply == sup[b]
  IN
  IF ~userBalance.exists THEN Failed(i, "ErrInvalidRequest", bal, sup)
  ELSE
  LET parsed == GetNonNegativeFixedDecs(precision,
                  <<credit.Amount, batchSupply.TradableAmount,
                    userBalance.TradableAmount,
                    batchSupply.CancelledAmount>>)
  IN
  IF parsed.err # "" THEN Failed(i, parsed.err, bal, sup)
  ELSE
  LET amtToCancelDec == parsed.decs[1]
      sub1 == SafeSubBalance(parsed.decs[3], amtToCancelDec)
  IN
  IF sub1.err # "" THEN Failed(i, sub1.err, bal, sup)
  ELSE
  LET userBalTradable == sub1.v
      sub2 == SafeSubBalance(parsed.decs[2], amtToCancelDec)
  IN
  IF sub2.err # "" THEN Failed(i, sub2.err, bal, sup)
  ELSE
  LET supplyTradable == sub2.v
      cancelledDec   == Add(parsed.decs[4], amtToCancelDec)
  IN
  [err |-> "",
   balance |-> SetBalance(bal, r.Owner, b,
                 cancelBalance(userBalance, userBalTradable)),
   supply |-> SetSupply(sup, b,
                cancelSupply(batchSupply, supplyTradable, cancelledDec)),
   out |-> <<Validated(i, ""),
             Write("BatchBalance", <<r.Owner, b>>),
             Write("BatchSupply", <<b>>),
             Emit(cancelEvent(r, credit)),
             ConsumeGas(i)>>]

\* ----------------------------------------------------------------- inputs
\* amount strings a request can carry: whole amounts, "1.5" (one fractional
\* digit: within the precision of B1, beyond that of B2), "-1" and a
\* non-numeric string
Amounts ==
  {DecStr(n, 0) : n \in 0..MaxAmount}
    \cup {DecStr(15, 1), DecStr(-1, 0), BadStr}

SendCredits ==
  [BatchDenom : Denoms, TradableAmount : Amounts, RetiredAmount : Amounts,
   RetirementJurisdiction : {"US-WA"}]

Credits == [BatchDenom : Denoms, Amount : Amounts]

NoEntry == [BatchDenom |-> "none"]
NoReq   == [op |-> "none"]

\* ------------------------------------------------------------------- Init
\* Balances with and without records, with fractional, retired and escrowed
\* amounts, and with the empty escrowed amount of a record a handler wrote.
\* The supply of B1 is one of: equal pool by pool to the balances; equal in
\* total only; not equal; equal in total with a negative tradable amount (as
\* sendEcocredits leaves it after retiring more than the tradable supply).
InitBalances ==
  {[h \in Holders |->
     [b \in Batches |->
        IF b = "B1"
        THEN (IF h = "h1" THEN r1 ELSE IF h = "h2" THEN r2 ELSE r3)
        ELSE (IF h = "h1"
              THEN BatchBalance(DecStr(2, 0), DecStr(0, 0), DecStr(0, 0))
              ELSE NoRecord)]] :
     r1 \in {BatchBalance(DecStr(2, 0), DecStr(0, 0), DecStr(0, 0)),
             BatchBalance(DecStr(15, 1), DecStr(1, 0), DecStr(1, 0)),
             BatchBalance(DecStr(1, 0), DecStr(0, 0), EmptyStr)},
     r2 \in {NoRecord,
             BatchBalance(DecStr(1, 0), DecStr(1, 0), DecStr(0, 0))},
     r3 \in {BatchBalance(DecStr(1, 0), DecStr(0, 0), DecStr(1, 0)),
             BatchBalance(DecStr(0, 0), DecStr(0, 0), DecStr(0, 0))}}

InitSupplies(bal, bsk) ==
  LET retired  == SumDec([h \in Holders |-> RetiredOf(bal[h]["B1"])], Holders)
      held     == CalculatedSupply(bal, bsk, "B1")
  IN {BatchSupply(String(Sub(held, retired)), String(retired), DecStr(1, 0)),
      BatchSupply(DecStr(0, 0), String(held), DecStr(0, 0)),
      BatchSupply(DecStr(1, 0), DecStr(0, 0), DecStr(0, 0)),
      BatchSupply(DecStr(-1, 0), String(Add(held, Dec(1, 0))), DecStr(0, 0))}

Init ==
  /\ balance \in InitBalances
  /\ basket = [b \in Batches |-> IF b = "B1" THEN DecStr(1, 0) ELSE DecStr(0, 0)]
  /\ \E s1 \in InitSupplies(balance, basket) :
       supply = [b \in Batches |->
                   IF b = "B1" THEN s1
                   ELSE BatchSupply(DecStr(2, 0), DecStr(0, 0), DecStr(0, 0))]
  /\ pc = "idle"
  /\ req = NoReq
  /\ idx = 0
  /\ entry = NoEntry
  /\ err = ""
  /\ ret = "none"
  /\ log = <<>>
  /\ callPre = [balance |-> balance, supply |-> supply]
  /\ entryPre = [balance |-> balance, supply |-> supply]
  /\ genesis = NoGenesis
  /\ createProject = NoCall
  /\ randomExponent = NoCall

\* ---------------------------------------------------------------- actions
\* entry into a handler: nothing is read or written before the loop
Begin(r) ==
  /\ pc = "idle"
  /\ ret = "none"
  /\ pc' = r.op
  /\ req' = r
  /\ idx' = 0
  /\ entry' = NoEntry
  /\ err' = ""
  /\ ret' = "none"
  /\ log' = <<>>
  /\ callPre' = Tables
  /\ entryPre' = Tables
  /\ UNCHANGED <<balance, supply, basket, genesis, createProject,
                 randomExponent>>

\* the effect of one loop iteration; an error returns from the handler
Iterate(credit, res) ==
  /\ idx < MaxEntries
  /\ entry' = credit
  /\ entryPre' = Tables
  /\ balance' = res.balance
  /\ supply' = res.supply
  /\ log' = log \o res.out
  /\ idx' = idx + 1
  /\ err' = res.err
  /\ IF res.err # ""
     THEN pc' = "idle" /\ ret' = "err"
     ELSE UNCHANGED <<pc, ret>>
  /\ UNCHANGED <<basket, req, callPre, genesis, createProject,
                 randomExponent>>

SendBegin ==
  \E sender \in Holders, recipient \in Holders :
    Begin([op |-> "Send", Sender |-> sender, Recipient |-> recipient])

SendEntry ==
  /\ pc = "Send"
  /\ \E credit \in SendCredits :
       Iterate(credit, SendIteration(balance, supply, req, credit, idx + 1))

RetireBegin ==
  \E owner \in Holders :
    Begin([op |-> "Retire", Owner |-> owner, Jurisdiction |-> "US-OR"])

RetireEntry ==
  /\ pc = "Retire"
  /\ \E credit \in Credits :
       Iterate(credit, RetireIteration(balance, supply, req, credit, idx + 1))

CancelBegin ==
  \E owner \in Holders :
    Begin([op |-> "Cancel", Owner |-> owner, Reason |-> "bridge-out"])

CancelEntry ==
  /\ pc = "Cancel"
  /\ \E credit \in Credits :
       Iterate(credit, CancelIteration(balance, supply, req, credit, idx + 1))

\* the loop is over: the handler returns its response
Return ==
  /\ pc # "idle"
  /\ pc' = "idle"
  /\ ret' = "ok"
  /\ UNCHANGED <<balance, supply, basket, req, idx, entry, err, log,
                 callPre, entryPre, genesis, createProject, randomExponent>>

Next ==
  \/ SendBegin
  \/ SendEntry
  \/ RetireBegin
  \/ RetireEntry
  \/ CancelBegin
  \/ CancelEntry
  \/ Return

Spec == Init /\ [][Next]_vars

\* ------------------------------------------------------- derived notions
Eq(x, y) == Cmp(x, y) = 0

\* calculated supply = declared supply, for every batch
SupplyMatches(tables) ==
  \A b \in Batches :
    Eq(CalculatedSupply(tables.balance, basket, b),
       DeclaredSupply(tables.supply, b))

IsWrite(x)    == x.op = "write"
IsEvent(x)    == x.op = "event"
IsValidate(x) == x.op = "validate"
IsGas(x)      == x.op = "gas"

\* an entry has been processed by the current / last call
Processed == idx > 0

\* the entry processed last succeeded
Succeeded == Processed /\ err = ""

\* ------------------------------------------------------------------ claims

\* C1: if calculated supply (all holders' tradable + retired + escrowed,
\* plus the basket balance) equals declared supply (tradable + retired) for
\* every batch when a call starts, it does so when the call has succeeded.
C1_SupplyInvariant ==
  (ret = "ok" /\ SupplyMatches(callPre)) => SupplyMatches(Tables)

\* C2: tradable + retired + cancelled supply of every batch is the same
\* before a call, during it and after it, whether it succeeds or fails.
C2_Conservation ==
  \A b \in Batches :
    Eq(TotalSupply(supply, b), TotalSupply(callPre.supply, b))

\* a failed call that had changed the supply record before it failed
C2_Witness ==
  /\ ret = "err"
  /\ \E b \in Batches :
       supply[b].CancelledAmount # callPre.supply[b].CancelledAmount

\* C3: when a call fails, every BatchBalance and BatchSupply record has the
\* value it had before the call.
C3_Atomicity == ret = "err" => Tables = callPre

\* C4: within a call no store write precedes a validation of any entry.
C4_ComputeThenCommit ==
  \A j \in 1..Len(log) : \A k \in 1..Len(log) :
    (j < k /\ IsWrite(log[j])) => ~IsValidate(log[k])

\* C5: a call that returned an error has emitted no event.
C5_NoEventOnFailure ==
  ret = "err" => \A j \in 1..Len(log) : ~IsEvent(log[j])

\* the batch, holders and amounts of the entry processed last
ValidatePos(i) ==
  CHOOSE p \in 1..Len(log) : IsValidate(log[p]) /\ log[p].i = i
LastOut == SubSeq(log, ValidatePos(idx), Len(log))
Events(seq) ==
  LET evs == SelectSeq(seq, IsEvent) IN [j \in 1..Len(evs) |-> evs[j].ev]

PreBal(h)  == entryPre.balance[h][entry.BatchDenom]
PostBal(h) == balance[h][entry.BatchDenom]
PreSup     == entryPre.supply[entry.BatchDenom]
PostSup    == supply[entry.BatchDenom]

IsNegativeStr(str) == str.s = "dec" /\ str.c < 0

NonNegativeTables(tables) ==
  /\ \A b \in Batches :
       /\ ~IsNegativeStr(tables.supply[b].TradableAmount)
       /\ ~IsNegativeStr(tables.supply[b].RetiredAmount)
       /\ ~IsNegativeStr(tables.supply[b].CancelledAmount)
  /\ \A h \in Holders : \A b \in Batches :
       tables.balance[h][b].exists =>
         /\ ~IsNegativeStr(tables.balance[h][b].TradableAmount)
         /\ ~IsNegativeStr(tables.balance[h][b].RetiredAmount)
         /\ ~IsNegativeStr(tables.balance[h][b].EscrowedAmount)

\* C6: a call that starts with no negative amount in any record leaves no
\* negative amount in any record.
C6_NonNegativity ==
  NonNegativeTables(callPre) => NonNegativeTables(Tables)

\* the holder debited by the entry processed last, and the amounts it
\* subtracts from that holder's tradable balance and from the tradable supply
Debited == IF req.op = "Send" THEN req.Sender ELSE req.Owner
HolderDebit ==
  IF req.op = "Send"
  THEN Add(ValueOf(entry.TradableAmount), ValueOf(entry.RetiredAmount))
  ELSE ValueOf(entry.Amount)
SupplyDebit ==
  IF req.op = "Send" THEN ValueOf(entry.RetiredAmount)
  ELSE ValueOf(entry.Amount)

WellFormed(str) ==
  NewNonNegativeFixedDecFromString(str, Precision[entry.BatchDenom]).err = ""

\* every lookup and every parse of the entry processed last succeeds
ReadsSucceed ==
  /\ Processed
  /\ entry.BatchDenom \in Batches
  /\ PreBal(Debited).exists
  /\ WellFormed(PreBal(Debited).TradableAmount)
  /\ WellFormed(PreBal(Debited).RetiredAmount)
  /\ WellFormed(PreSup.TradableAmount)
  /\ WellFormed(PreSup.RetiredAmount)
  /\ WellFormed(PreSup.CancelledAmount)
  /\ IF req.op = "Send"
     THEN /\ WellFormed(entry.TradableAmount)
          /\ WellFormed(entry.RetiredAmount)
          /\ PreBal(req.Recipient).exists =>
               /\ WellFormed(PreBal(req.Recipient).TradableAmount)
               /\ WellFormed(PreBal(req.Recipient).RetiredAmount)
     ELSE WellFormed(entry.Amount)

\* C7: an entry that would subtract more than the holder's tradable balance
\* or more than the batch's tradable supply fails with InsufficientBalance
\* and writes nothing.
C7_CheckedDecrements ==
  (/\ ReadsSucceed
   /\ \/ Cmp(HolderDebit, TradableOf(PreBal(Debited))) = 1
      \/ Cmp(SupplyDebit, ValueOf(PreSup.TradableAmount)) = 1)
    => (err = "InsufficientBalance" /\ Tables = entryPre)

\* C8: a successful Transfer entry between two different holders debits the
\* sender's tradable balance by tradableAmount + retiredAmount, credits the
\* recipient's tradable by tradableAmount and retired by retiredAmount, moves
\* retiredAmount from tradable to retired supply, and leaves the sender's
\* retired balance and the cancelled supply as they were.
C8_TransferEffect ==
  (req.op = "Send" /\ Succeeded /\ req.Sender # req.Recipient) =>
    LET t == ValueOf(entry.TradableAmount)
        r == ValueOf(entry.RetiredAmount)
        S == req.Sender
        R == req.Recipient
    IN /\ Eq(TradableOf(PostBal(S)), Sub(TradableOf(PreBal(S)), Add(t, r)))
       /\ Eq(RetiredOf(PostBal(S)), RetiredOf(PreBal(S)))
       /\ Eq(TradableOf(PostBal(R)), Add(TradableOf(PreBal(R)), t))
       /\ Eq(RetiredOf(PostBal(R)), Add(RetiredOf(PreBal(R)), r))
       /\ Eq(ValueOf(PostSup.TradableAmount),
             Sub(ValueOf(PreSup.TradableAmount), r))
       /\ Eq(ValueOf(PostSup.RetiredAmount),
             Add(ValueOf(PreSup.RetiredAmount), r))
       /\ Eq(ValueOf(PostSup.CancelledAmount),
             ValueOf(PreSup.CancelledAmount))

\* a successful transfer of a tradable and a retired amount to another holder
C8_Witness ==
  /\ req.op = "Send" /\ Succeeded /\ req.Sender # req.Recipient
  /\ ~IsZero(ValueOf(entry.TradableAmount))
  /\ ~IsZero(ValueOf(entry.RetiredAmount))

\* C9: a successful Retire entry moves the amount from the owner's tradable
\* to the owner's retired balance and from tradable to retired supply,
\* leaves the cancelled supply as it was, and emits exactly one Retire event
\* with the owner, the batch denom, the amount and the jurisdiction.
C9_RetireEffect ==
  (req.op = "Retire" /\ Succeeded) =>
    LET a == ValueOf(entry.Amount)
        O == req.Owner
    IN /\ Eq(TradableOf(PostBal(O)), Sub(TradableOf(PreBal(O)), a))
       /\ Eq(RetiredOf(PostBal(O)), Add(RetiredOf(PreBal(O)), a))
       /\ Eq(ValueOf(PostSup.TradableAmount),
             Sub(ValueOf(PreSup.TradableAmount), a))
       /\ Eq(ValueOf(PostSup.RetiredAmount),
             Add(ValueOf(PreSup.RetiredAmount), a))
       /\ Eq(ValueOf(PostSup.CancelledAmount),
             ValueOf(PreSup.CancelledAmount))
       /\ Events(LastOut) =
            <<EventRetire(O, entry.BatchDenom, entry.Amount,
                          req.Jurisdiction)>>

\* a successful retirement of a positive amount
C9_Witness ==
  req.op = "Retire" /\ Succeeded /\ ~IsZero(ValueOf(entry.Amount))

\* C10: a successful Cancel entry debits the owner's tradable balance and
\* the tradable supply by the amount, credits the cancelled supply by it,
\* leaves the owner's retired balance and the retired supply as they were,
\* and emits exactly one Cancel event with the owner, the batch denom, the
\* amount and the reason.
C10_CancelEffect ==
  (req.op = "Cancel" /\ Succeeded) =>
    LET a == ValueOf(entry.Amount)
        O == req.Owner
    IN /\ Eq(TradableOf(PostBal(O)), Sub(TradableOf(PreBal(O)), a))
       /\ Eq(RetiredOf(PostBal(O)), RetiredOf(PreBal(O)))
       /\ Eq(ValueOf(PostSup.TradableAmount),
             Sub(ValueOf(PreSup.TradableAmount), a))
       /\ Eq(ValueOf(PostSup.CancelledAmount),
             Add(ValueOf(PreSup.CancelledAmount), a))
       /\ Eq(ValueOf(PostSup.RetiredAmount), ValueOf(PreSup.RetiredAmount))
       /\ Events(LastOut) =
            <<EventCancel(O, entry.BatchDenom, entry.Amount, req.Reason)>>

\* a successful cancellation of a positive amount
C10_Witness ==
  req.op = "Cancel" /\ Succeeded /\ ~IsZero(ValueOf(entry.Amount))

\* C11: a Transfer entry whose tradableAmount + retiredAmount exceeds the
\* sender's tradable balance fails with InsufficientBalance and changes no
\* balance and no supply, also when the tradable balance covers
\* tradableAmount alone and whatever the sender's retired balance is.
C11_TransferInsufficient ==
  (/\ req.op = "Send"
   /\ ReadsSucceed
   /\ Cmp(HolderDebit, TradableOf(PreBal(req.Sender))) = 1)
    => (err = "InsufficientBalance" /\ Tables = entryPre)

\* the sender's tradable balance covers tradableAmount but not the sum, and
\* tradable + retired balance would cover the sum
C11_Witness ==
  /\ req.op = "Send"
  /\ ReadsSucceed
  /\ err = "InsufficientBalance"
  /\ Cmp(ValueOf(entry.TradableAmount), TradableOf(PreBal(req.Sender))) <= 0
  /\ Cmp(HolderDebit, TradableOf(PreBal(req.Sender))) = 1
  /\ Cmp(HolderDebit, Add(TradableOf(PreBal(req.Sender)),
                          RetiredOf(PreBal(req.Sender)))) <= 0

\* C12: a Retire or Cancel entry whose amount exceeds the owner's tradable
\* balance (all amounts read being well formed) fails with
\* InsufficientBalance and leaves the owner's balance and the batch supply
\* as they were; so does any positive amount once the whole tradable balance
\* has been retired.
C12_RetireCancelInsufficient ==
  (/\ req.op \in {"Retire", "Cancel"}
   /\ ReadsSucceed
   /\ Cmp(ValueOf(entry.Amount), TradableOf(PreBal(req.Owner))) = 1)
    => /\ err = "InsufficientBalance"
       /\ PostBal(req.Owner) = PreBal(req.Owner)
       /\ PostSup = PreSup
       /\ Tables = entryPre

\* the first entry retired the owner's whole tradable balance, the second
\* entry retires a positive amount of the same batch
C12_Witness ==
  /\ req.op = "Retire"
  /\ idx = 2
  /\ err = "InsufficientBalance"
  /\ ~IsZero(ValueOf(entry.Amount))
  /\ IsZero(TradableOf(PreBal(req.Owner)))
  /\ ~IsZero(TradableOf(callPre.balance[req.Owner][entry.BatchDenom]))

\* C13: for every holder and batch the retired balance is, during and after
\* a call, at least what it was when the call started and when the entry
\* processed last started.
C13_RetiredBalanceMonotone ==
  \A h \in Holders : \A b \in Batches :
    /\ Cmp(RetiredOf(balance[h][b]), RetiredOf(callPre.balance[h][b])) >= 0
    /\ Cmp(RetiredOf(balance[h][b]), RetiredOf(entryPre.balance[h][b])) >= 0

\* a holder with a retired balance has sent credits to itself, retiring some
C13_Witness ==
  /\ req.op = "Send" /\ Succeeded
  /\ req.Sender = req.Recipient
  /\ ~IsZero(ValueOf(entry.RetiredAmount))
  /\ ~IsZero(RetiredOf(PreBal(req.Sender)))

\* C14: the cancelled supply of a batch is never below what it was when the
\* call started; a Transfer or Retire call leaves the stored cancelled
\* amount as it was, also when it writes the supply record.
C14_CancelledSupplyMonotone ==
  \A b \in Batches :
    /\ Cmp(ValueOf(supply[b].CancelledAmount),
           ValueOf(callPre.supply[b].CancelledAmount)) >= 0
    /\ req.op \in {"Send", "Retire"} =>
         supply[b].CancelledAmount = callPre.supply[b].CancelledAmount

\* a Transfer or Retire entry has written the supply record of a batch that
\* has a cancelled supply
C14_Witness ==
  /\ req.op \in {"Send", "Retire"} /\ Succeeded
  /\ PostSup # PreSup
  /\ ~IsZero(ValueOf(PreSup.CancelledAmount))

\* C15: the retired supply of a batch is never below, and its tradable
\* supply never above, what it was when the call started and when the entry
\* processed last started.
C15_RetirementIrreversible ==
  \A b \in Batches :
    /\ Cmp(ValueOf(supply[b].RetiredAmount),
           ValueOf(callPre.supply[b].RetiredAmount)) >= 0
    /\ Cmp(ValueOf(supply[b].RetiredAmount),
           ValueOf(entryPre.supply[b].RetiredAmount)) >= 0
    /\ Cmp(ValueOf(supply[b].TradableAmount),
           ValueOf(callPre.supply[b].TradableAmount)) <= 0
    /\ Cmp(ValueOf(supply[b].TradableAmount),
           ValueOf(entryPre.supply[b].TradableAmount)) <= 0

\* a call has cancelled credits of a batch that has a retired supply and
\* has then cancelled more of them
C15_Witness ==
  /\ req.op = "Cancel" /\ Succeeded /\ idx = 2
  /\ ~IsZero(ValueOf(PreSup.RetiredAmount))
  /\ Cmp(ValueOf(PostSup.TradableAmount),
         ValueOf(PreSup.TradableAmount)) = -1
  /\ Cmp(ValueOf(PreSup.TradableAmount),
         ValueOf(callPre.supply[entry.BatchDenom].TradableAmount)) = -1

\* one iteration of the loop of the handler of request r
Iteration(bal, sup, r, credit, i) ==
  IF r.op = "Send" THEN SendIteration(bal, sup, r, credit, i)
  ELSE IF r.op = "Retire" THEN RetireIteration(bal, sup, r, credit, i)
  ELSE CancelIteration(bal, sup, r, credit, i)

\* the amounts an entry of the current call subtracts from the holder's
\* tradable balance and from the tradable supply
EntryDebit(credit) ==
  IF req.op = "Send"
  THEN Add(ValueOf(credit.TradableAmount), ValueOf(credit.RetiredAmount))
  ELSE ValueOf(credit.Amount)
EntrySupplyDebit(credit) ==
  IF req.op = "Send" THEN ValueOf(credit.RetiredAmount)
  ELSE ValueOf(credit.Amount)

EntryWellFormed ==
  IF req.op = "Send"
  THEN WellFormed(entry.TradableAmount) /\ WellFormed(entry.RetiredAmount)
  ELSE WellFormed(entry.Amount)

\* the entries on the batch of the second entry that, applied first to the
\* tables of the start of the call, succeed and leave the tables the second
\* entry started from
FirstEntries ==
  {c \in (IF req.op = "Send" THEN SendCredits ELSE Credits) :
     /\ c.BatchDenom = entry.BatchDenom
     /\ LET one == Iteration(callPre.balance, callPre.supply, req, c, 1)
        IN /\ one.err = ""
           /\ one.balance = entryPre.balance
           /\ one.supply = entryPre.supply}

\* a + b fits the holder's tradable balance and the batch's tradable supply
\* of the start of the call
Fits(first) ==
  /\ Cmp(Add(EntryDebit(first), EntryDebit(entry)),
         TradableOf(callPre.balance[Debited][entry.BatchDenom])) <= 0
  /\ Cmp(Add(EntrySupplyDebit(first), EntrySupplyDebit(entry)),
         ValueOf(callPre.supply[entry.BatchDenom].TradableAmount)) <= 0

\* the tables two single-entry calls leave, the second one succeeding
AsTwoCalls(first) ==
  LET one == Iteration(callPre.balance, callPre.supply, req, first, 1)
      two == Iteration(one.balance, one.supply, req, entry, 1)
  IN /\ two.err = ""
     /\ Tables = [balance |-> two.balance, supply |-> two.supply]

\* C16: the second of two entries on the same batch, with well-formed
\* amounts a and b, succeeds if and only if a + b exceeds neither the
\* holder's tradable balance nor the batch's tradable supply of the start of
\* the call, and then the tables are those two single-entry calls leave.
C16_ListOrder ==
  (idx = 2 /\ entry.BatchDenom \in Batches /\ EntryWellFormed) =>
    \A first \in FirstEntries :
      /\ err = "" <=> Fits(first)
      /\ err = "" => AsTwoCalls(first)

IsTransferEvent(ev) == ev.type = "EventTransfer"
IsRetireEvent(ev)   == ev.type = "EventRetire"
RetiresCredits(ev)  == ~IsZero(ValueOf(ev.RetiredAmount))

\* C17: when i entries of a Transfer call have succeeded, exactly i Transfer
\* events have been emitted, the i-th for the i-th entry, and as many Retire
\* events as there were entries with a retiredAmount above zero; the entry
\* processed last emitted one Retire event if its retiredAmount is above
\* zero and none otherwise.
C17_TransferEvents ==
  (req.op = "Send" /\ Succeeded) =>
    LET transfers == SelectSeq(Events(log), IsTransferEvent)
        retires   == SelectSeq(Events(log), IsRetireEvent)
        last      == Events(LastOut)
    IN /\ Len(transfers) = idx
       /\ transfers[idx] = EventTransfer(req.Sender, req.Recipient, entry)
       /\ Len(retires) = Len(SelectSeq(transfers, RetiresCredits))
       /\ Len(SelectSeq(last, IsTransferEvent)) = 1
       /\ Len(SelectSeq(last, IsRetireEvent)) =
            (IF IsZero(ValueOf(entry.RetiredAmount)) THEN 0 ELSE 1)

\* a Transfer call of two entries has returned; one of the entries retired
\* credits, the other did not
C17_Witness ==
  /\ req.op = "Send" /\ ret = "ok" /\ idx = 2
  /\ Len(SelectSeq(Events(log), IsTransferEvent)) = 2
  /\ Len(SelectSeq(Events(log), IsRetireEvent)) = 1

\* the entry processed last wrote the supply record of its batch
WroteSupply ==
  \E j \in 1..Len(LastOut) :
    LastOut[j] = Write("BatchSupply", <<entry.BatchDenom>>)

\* C18: a successful Transfer entry with a retiredAmount of zero leaves the
\* BatchSupply record of the batch as it was, field by field, and does not
\* write it; a Transfer entry that writes it has a retiredAmount above zero.
C18_NoRetireNoSupplyWrite ==
  (req.op = "Send" /\ Succeeded) =>
    /\ IsZero(ValueOf(entry.RetiredAmount)) =>
         /\ PostSup.TradableAmount = PreSup.TradableAmount
         /\ PostSup.RetiredAmount = PreSup.RetiredAmount
         /\ PostSup.CancelledAmount = PreSup.CancelledAmount
         /\ supply = entryPre.supply
         /\ ~WroteSupply
    /\ WroteSupply => ~IsZero(ValueOf(entry.RetiredAmount))

\* a successful transfer of a tradable amount only, to another holder
C18_Witness ==
  /\ req.op = "Send" /\ Succeeded /\ req.Sender # req.Recipient
  /\ IsZero(ValueOf(entry.RetiredAmount))
  /\ ~IsZero(ValueOf(entry.TradableAmount))

\* the entry processed last wrote nothing to the store
WroteNothing ==
  /\ Tables = entryPre
  /\ \A j \in 1..Len(LastOut) : ~IsWrite(LastOut[j])

ZeroRecord == BatchBalance(DecStr(0, 0), DecStr(0, 0), DecStr(0, 0))

\* the holders the current call involves
Involved ==
  IF req.op = "Send" THEN {req.Sender, req.Recipient} ELSE {req.Owner}

\* the entry processed last, applied to the tables it started from with an
\* all-zero record for holder h
WithZeroRecord(h) ==
  Iteration(SetBalance(entryPre.balance, h, entry.BatchDenom, ZeroRecord),
            entryPre.supply, req, entry, idx)

\* the same error kind (or success) and the same amounts as the entry
\* processed last
SameOutcome(res) ==
  /\ res.err = err
  /\ res.supply = supply
  /\ \A h \in Holders : \A b \in Batches :
       /\ Eq(TradableOf(res.balance[h][b]), TradableOf(balance[h][b]))
       /\ Eq(RetiredOf(res.balance[h][b]), RetiredOf(balance[h][b]))
       /\ Eq(EscrowedOf(res.balance[h][b]), EscrowedOf(balance[h][b]))

\* C20 as stated: for every holder an entry involves (sender, recipient or
\* owner) that has no record for the batch, the entry has the outcome it has
\* when that holder has an all-zero record.
C20_AbsenceIsZero ==
  (Processed /\ entry.BatchDenom \in Batches) =>
    \A h \in Involved : ~PreBal(h).exists => SameOutcome(WithZeroRecord(h))

\* C20, amended: for the recipient of a Transfer entry, other than the
\* sender, that has no record for the batch, the entry has the outcome it
\* has when the recipient has an all-zero record: the same error kind or
\* success, the same amounts, and on success the same records, store writes
\* and events.
C20_RecipientAbsenceIsZero ==
  (/\ Processed
   /\ req.op = "Send"
   /\ entry.BatchDenom \in Batches
   /\ req.Recipient # req.Sender
   /\ ~PreBal(req.Recipient).exists) =>
    LET res == WithZeroRecord(req.Recipient) IN
    /\ SameOutcome(res)
    /\ err = "" => (res.balance = balance /\ res.out = LastOut)

\* a successful transfer of a non-zero amount to another holder that had no
\* record for the batch
C20_Witness ==
  /\ req.op = "Send" /\ Succeeded
  /\ req.Recipient # req.Sender
  /\ ~PreBal(req.Recipient).exists
  /\ ~IsZero(HolderDebit)

\* the kind of error an amount string has at precision p ("" if none)
AmountKind(str, p) ==
  IF str.s # "dec" \/ str.c < 0 THEN "InvalidAmount"
  ELSE IF str.d > p THEN "PrecisionExceeded"
  ELSE ""

\* the kind of the first ill-formed amount of the entry processed last
EntryAmountKind ==
  LET p == Precision[entry.BatchDenom] IN
  IF req.op = "Send"
  THEN (IF AmountKind(entry.TradableAmount, p) # ""
        THEN AmountKind(entry.TradableAmount, p)
        ELSE AmountKind(entry.RetiredAmount, p))
  ELSE AmountKind(entry.Amount, p)

\* C21: an entry (its batch and the debited holder's record being found)
\* whose amount is negative or not a number fails with InvalidAmount, one
\* whose amount has more fractional digits than the precision of the
\* batch's credit type fails with PrecisionExceeded, and neither writes a
\* record; an entry whose amounts are within the precision fails with
\* neither kind.
C21_AmountValidation ==
  (Processed /\ entry.BatchDenom \in Batches /\ PreBal(Debited).exists) =>
    /\ EntryAmountKind # "" => (err = EntryAmountKind /\ WroteNothing)
    /\ ReadsSucceed => err \notin {"InvalidAmount", "PrecisionExceeded"}

\* an amount of one fractional digit has been refused on a batch of
\* precision 0, after an entry of the same call accepted it on a batch of
\* precision 2
C21_Witness ==
  /\ idx = 2
  /\ err = "PrecisionExceeded"
  /\ entry.BatchDenom \in Batches
  /\ EntryAmountKind = "PrecisionExceeded"
  /\ entryPre # callPre
  /\ \E j \in 1..Len(log) :
       /\ IsEvent(log[j])
       /\ log[j].ev.BatchDenom # entry.BatchDenom
       /\ \/ (req.op = "Send" /\ log[j].ev.type = "EventTransfer"
                /\ log[j].ev.TradableAmount = entry.TradableAmount
                /\ log[j].ev.RetiredAmount = entry.RetiredAmount)
          \/ (req.op # "Send" /\ log[j].ev.Amount = entry.Amount)

\* every amount of every record of every batch has at most as many
\* fractional digits as the precision of the batch's credit type
DigitsOf(str) == IF str.s = "dec" THEN str.d ELSE 0
WithinPrecision(tables) ==
  \A b \in Batches :
    /\ DigitsOf(tables.supply[b].TradableAmount) <= Precision[b]
    /\ DigitsOf(tables.supply[b].RetiredAmount) <= Precision[b]
    /\ DigitsOf(tables.supply[b].CancelledAmount) <= Precision[b]
    /\ \A h \in Holders :
         tables.balance[h][b].exists =>
           /\ DigitsOf(tables.balance[h][b].TradableAmount) <= Precision[b]
           /\ DigitsOf(tables.balance[h][b].RetiredAmount) <= Precision[b]
           /\ DigitsOf(tables.balance[h][b].EscrowedAmount) <= Precision[b]

\* C22: if every amount of every record is within the precision of its
\* batch when a call starts, it is so during and after the call.
C22_PrecisionInvariant ==
  WithinPrecision(callPre) => WithinPrecision(Tables)

\* an entry has written a fractional amount to records of a batch
C22_Witness ==
  /\ Succeeded
  /\ WithinPrecision(callPre)
  /\ DigitsOf(PostBal(Debited).TradableAmount) > 0
  /\ PostBal(Debited) # PreBal(Debited)
  /\ PostSup # PreSup

\* C29: the gas of an iteration has been charged once for every entry that
\* succeeded, in list order, and not for the entry that failed: n times
\* when n entries succeeded, k - 1 times when the k-th entry failed.
C29_GasPerEntry ==
  LET gas == SelectSeq(log, IsGas) IN
  /\ Len(gas) = (IF err = "" THEN idx ELSE idx - 1)
  /\ \A j \in 1..Len(gas) : gas[j] = ConsumeGas(j)

\* a call has failed at its second entry
C29_Witness ==
  /\ ret = "err" /\ idx = 2
  /\ Len(SelectSeq(log, IsGas)) = 1

\* -------------------------------------------------------- ValidateGenesis
\* A snapshot is the JSON of the module's tables; a table is the list of
\* its records in primary key order.  ValidateGenesis imports it into a
\* fresh store and walks the tables; genesis.pc is the loop it is at, the
\* other fields of genesis are its local maps.

\* an error: its registered kind and what it is about ("" / "" is nil)
GErr(kind, msg) == [kind |-> kind, msg |-> msg]
NoErr           == GErr("", "")

\* a Go map: a function on the keys present; m[k] of an absent key is the
\* zero value
EmptyMap == [k \in {} |-> 0]
Put(m, k, v) == [x \in DOMAIN m \cup {k} |-> IF x = k THEN v ELSE m[x]]
MapGet(m, k, zero) == IF k \in DOMAIN m THEN m[k] ELSE zero

\* timestamps of the imported message, times of the message validated
Null         == [set |-> FALSE, Seconds |-> 0]
Timestamp(n) == [set |-> TRUE, Seconds |-> n]
NoDate       == [set |-> FALSE, t |-> 0]
Date(t)      == [set |-> TRUE, t |-> t]

\* ormutil.PulsarToGogoSlow on a Batch: a timestamp becomes a time, a
\* missing timestamp a nil pointer
PulsarToGogoSlow(m) ==
  [m EXCEPT !.StartDate = IF @.set THEN Date(@.Seconds) ELSE NoDate,
            !.EndDate   = IF @.set THEN Date(@.Seconds) ELSE NoDate]

\* time.Time.Compare
Compare(x, y) == IF x.t < y.t THEN -1 ELSE IF x.t = y.t THEN 0 ELSE 1

\* faulty variant of BatchValidate: an end date equal to the start date
\* passes
BatchValidateSameDay(b) ==
  IF ~b.DenomValid THEN GErr("ErrParseFailure", "batch denom")
  ELSE IF b.ProjectKey = 0
  THEN GErr("ErrInvalidRequest", "project key cannot be zero")
  ELSE IF ~b.StartDate.set
  THEN GErr("ErrInvalidRequest", "must provide a start date")
  ELSE IF ~b.EndDate.set
  THEN GErr("ErrInvalidRequest", "must provide an end date")
  ELSE IF Compare(b.EndDate, b.StartDate) = -1
  THEN GErr("ErrInvalidRequest", "end date must be after start date")
  ELSE IF ~b.IssuerValid THEN GErr("bech32", "issuer")
  ELSE NoErr

\* Batch.Validate
BatchValidate(b) ==
  IF ~b.DenomValid THEN GErr("ErrParseFailure", "batch denom")
  ELSE IF b.ProjectKey = 0
  THEN GErr("ErrInvalidRequest", "project key cannot be zero")
  ELSE IF ~b.StartDate.set
  THEN GErr("ErrInvalidRequest", "must provide a start date")
  ELSE IF ~b.EndDate.set
  THEN GErr("ErrInvalidRequest", "must provide an end date")
  ELSE IF Compare(b.EndDate, b.StartDate) # 1
  THEN GErr("ErrInvalidRequest", "end date must be after start date")
  ELSE IF ~b.IssuerValid THEN GErr("bech32", "issuer")
  ELSE NoErr

\* Class.Validate and Project.Validate, on the fields a snapshot varies
\* (metadata, admin and ids are valid in every snapshot)
ClassValidate(c) ==
  IF c.CreditTypeAbbrev = ""
  THEN GErr("ErrInvalidRequest", "must specify a credit type abbreviation")
  ELSE NoErr

ProjectValidate(q) ==
  IF q.ClassKey = 0
  THEN GErr("ErrInvalidRequest", "class key cannot be zero")
  ELSE NoErr

\* validateMsg, the JSONValidator of the module database
validateMsg(table, m) ==
  IF table = "Class" THEN ClassValidate(m)
  ELSE IF table = "Project" THEN ProjectValidate(m)
  ELSE IF table = "Batch" THEN BatchValidate(PulsarToGogoSlow(m))
  ELSE NoErr

\* the errors the validator returns for the records of the snapshot
ValidateJSON(data) ==
  UNION {{validateMsg(t, data[t][i]) : i \in 1..Len(data[t])} :
           t \in {"Class", "Project", "Batch"}} \ {NoErr}

\* abbrevToPrecision, from the CreditType table
RECURSIVE CreditTypesLoop(_, _, _)
CreditTypesLoop(creditTypes, i, m) ==
  IF i > Len(creditTypes) THEN m
  ELSE CreditTypesLoop(creditTypes, i + 1,
         Put(m, creditTypes[i].Abbreviation, creditTypes[i].Precision))

\* faulty variant of ClassesLoop: only the first class is looked at
ClassesLoopFirstOnly(classes, i, abbrevToPrecision) ==
  IF i > Len(classes) \/ i > 1 THEN NoErr
  ELSE IF classes[i].CreditTypeAbbrev \notin DOMAIN abbrevToPrecision
  THEN GErr("ErrNotFound", "credit type not exist for abbreviation")
  ELSE NoErr

\* the credit type of every class exists
RECURSIVE ClassesLoop(_, _, _)
ClassesLoop(classes, i, abbrevToPrecision) ==
  IF i > Len(classes) THEN NoErr
  ELSE IF classes[i].CreditTypeAbbrev \notin DOMAIN abbrevToPrecision
  THEN GErr("ErrNotFound", "credit type not exist for abbreviation")
  ELSE ClassesLoop(classes, i + 1, abbrevToPrecision)

\* projectKeyToClassKey: the first record of a key wins
RECURSIVE ProjectsLoop(_, _, _)
ProjectsLoop(projects, i, m) ==
  IF i > Len(projects) THEN m
  ELSE IF projects[i].Key \in DOMAIN m THEN ProjectsLoop(projects, i + 1, m)
  ELSE ProjectsLoop(projects, i + 1,
         Put(m, projects[i].Key, projects[i].ClassKey))

\* faulty variant of ClassTableGet: a key that is not found yields the
\* first class of the table under that key
ClassTableGetAny(classes, key) ==
  IF \E i \in 1..Len(classes) : classes[i].Key = key
  THEN {classes[i] : i \in {j \in 1..Len(classes) : classes[j].Key = key}}
  ELSE {[classes[i] EXCEPT !.Key = key] :
          i \in {j \in 1..Len(classes) : j = 1}}

\* ClassTable().Get: the class of the key, none if it is not found
ClassTableGet(classes, key) ==
  {classes[i] : i \in {j \in 1..Len(classes) : classes[j].Key = key}}

\* batchIdToPrecision and batchDenomToIdMap, from the Batch table; st is
\* [err, batchIdToPrecision, batchDenomToIdMap] so far
RECURSIVE BatchesLoop(_, _, _, _)
BatchesLoop(g, batches, i, st) ==
  IF i > Len(batches) THEN st
  ELSE
  LET batch  == batches[i]
      denoms == Put(st.batchDenomToIdMap, batch.Denom, batch.Key)
      st1    == [st EXCEPT !.batchDenomToIdMap = denoms]
  IN
  IF batch.Key \in DOMAIN st.batchIdToPrecision
  THEN BatchesLoop(g, batches, i + 1, st1)
  ELSE
  LET classKey == MapGet(g.projectKeyToClassKey, batch.ProjectKey, 0)
      found    == ClassTableGet(g.data.Class, classKey)
  IN
  IF found = {} THEN [st1 EXCEPT !.err = GErr("orm.NotFound", "class")]
  ELSE
  LET class == CHOOSE c \in found : TRUE IN
  IF class.Key = classKey
  THEN BatchesLoop(g, batches, i + 1,
         [st1 EXCEPT !.batchIdToPrecision =
            Put(@, batch.Key,
                MapGet(g.abbrevToPrecision, class.CreditTypeAbbrev, 0))])
  ELSE BatchesLoop(g, batches, i + 1, st1)

\* an amount of a snapshot: "" is zero, anything else is parsed
ParseOrZero(str, precision) ==
  IF str = EmptyStr THEN Ok(ZeroDec)
  ELSE NewNonNegativeFixedDecFromString(str, precision)

\* math.NewNonNegativeDecFromString: no limit on the fractional digits
NewNonNegativeDecFromString(str) ==
  IF str.s # "dec" THEN Error("InvalidAmount")
  ELSE IF str.c < 0 THEN Error("InvalidAmount")
  ELSE Ok(Dec(str.c, str.d))

\* batchIdToSupply: tradable + retired of every BatchSupply record; st is
\* [err, m] so far
RECURSIVE SuppliesLoop(_, _, _, _)
SuppliesLoop(supplies, i, batchIdToPrecision, st) ==
  IF i > Len(supplies) THEN st
  ELSE
  LET batchSupply == supplies[i]
      precision   == MapGet(batchIdToPrecision, batchSupply.BatchKey, 0)
      tSupply     == ParseOrZero(batchSupply.TradableAmount, precision)
      rSupply     == ParseOrZero(batchSupply.RetiredAmount, precision)
  IN
  IF tSupply.err # "" THEN [st EXCEPT !.err = GErr(tSupply.err, "supply")]
  ELSE IF rSupply.err # ""
  THEN [st EXCEPT !.err = GErr(rSupply.err, "supply")]
  ELSE SuppliesLoop(supplies, i + 1, batchIdToPrecision,
         [st EXCEPT !.m = Put(@, batchSupply.BatchKey,
                              Add(tSupply.v, rSupply.v))])

\* calculateSupply: tradable + retired + escrowed of every BatchBalance
\* record, summed by batch key; st is [err, m] so far
RECURSIVE calculateSupply(_, _, _, _)
calculateSupply(balances, i, batchIdToPrecision, st) ==
  IF i > Len(balances) THEN st
  ELSE
  LET bal == balances[i] IN
  IF bal.BatchKey \notin DOMAIN batchIdToPrecision
  THEN [st EXCEPT !.err = GErr("ErrInvalidType",
                               "credit type not exist for batch")]
  ELSE
  LET precision == batchIdToPrecision[bal.BatchKey]
      tradable  == ParseOrZero(bal.TradableAmount, precision)
      retired   == ParseOrZero(bal.RetiredAmount, precision)
      escrowed  == ParseOrZero(bal.EscrowedAmount, precision)
  IN
  IF tradable.err # "" THEN [st EXCEPT !.err = GErr(tradable.err, "balance")]
  ELSE IF retired.err # ""
  THEN [st EXCEPT !.err = GErr(retired.err, "balance")]
  ELSE IF escrowed.err # ""
  THEN [st EXCEPT !.err = GErr(escrowed.err, "balance")]
  ELSE
  LET total == Add(Add(tradable.v, retired.v), escrowed.v) IN
  calculateSupply(balances, i + 1, batchIdToPrecision,
    [st EXCEPT !.m = IF bal.BatchKey \in DOMAIN @
                     THEN Put(@, bal.BatchKey, Add(@[bal.BatchKey], total))
                     ELSE Put(@, bal.BatchKey, total)])

\* the BasketBalance loop: every balance is added to the calculated supply
\* of its batch, which must be there already; st is [err, m] so far
RECURSIVE BasketsLoop(_, _, _, _)
BasketsLoop(baskets, i, batchDenomToIdMap, st) ==
  IF i > Len(baskets) THEN st
  ELSE
  LET bBalance == baskets[i] IN
  IF bBalance.BatchDenom \notin DOMAIN batchDenomToIdMap
  THEN [st EXCEPT !.err = GErr("Errorf", "unknown credit batch in basket")]
  ELSE
  LET batchId == batchDenomToIdMap[bBalance.BatchDenom]
      bb      == NewNonNegativeDecFromString(bBalance.Balance)
  IN
  IF bb.err # "" THEN [st EXCEPT !.err = GErr(bb.err, "basket")]
  ELSE IF batchId \in DOMAIN st.m
  THEN BasketsLoop(baskets, i + 1, batchDenomToIdMap,
         [st EXCEPT !.m = Put(@, batchId, Add(@[batchId], bb.v))])
  ELSE [st EXCEPT !.err = GErr("Errorf", "unknown credit batch in basket")]

\* validateSupply: the errors it can return ({NoErr} when it returns nil);
\* the loop ranges over a Go map, so any failing key can be the one the
\* loop meets first
validateSupply(batchIdToSupplyCal, batchIdToSupply) ==
  LET failing == {k \in DOMAIN batchIdToSupplyCal :
                    \/ k \notin DOMAIN batchIdToSupply
                    \/ Cmp(batchIdToSupply[k], batchIdToSupplyCal[k]) # 0}
  IN
  IF DOMAIN batchIdToSupplyCal = {} /\ DOMAIN batchIdToSupply # {}
  THEN {GErr("ErrInvalidRequest",
             "batch supply was given but no balances were found")}
  ELSE IF DOMAIN batchIdToSupply = {} /\ DOMAIN batchIdToSupplyCal # {}
  THEN {GErr("ErrInvalidRequest",
             "batch balances were given but no supplies were found")}
  ELSE IF failing = {} THEN {NoErr}
  ELSE {IF k \in DOMAIN batchIdToSupply
        THEN GErr("ErrInvalidCoins", "supply is incorrect")
        ELSE GErr("ErrNotFound", "supply is not found") : k \in failing}

\* ---------------------------------------------------------------- snapshots
Absent == [present |-> FALSE]

\* a supply, a balance, a basket balance that is there
SupplyOf(t, r)     == [present |-> TRUE, t |-> t, r |-> r]
BalanceOf(t, r, e) == [present |-> TRUE, t |-> t, r |-> r, e |-> e]
BasketOf(a)        == [present |-> TRUE, a |-> a]

BatchRecord(key, denom, v) ==
  [Key |-> key, Denom |-> denom, DenomValid |-> v.DenomValid,
   ProjectKey |-> v.ProjectKey, StartDate |-> v.StartDate,
   EndDate |-> v.EndDate, IssuerValid |-> v.IssuerValid]

ValidBatch ==
  [DenomValid |-> TRUE, ProjectKey |-> 1, StartDate |-> Timestamp(1),
   EndDate |-> Timestamp(2), IssuerValid |-> TRUE]

\* batches with one thing wrong: no project key, a project that is not
\* there, end date equal to or before the start date, a date missing, a
\* malformed denom, a malformed issuer
BatchVariants ==
  {ValidBatch,
   [ValidBatch EXCEPT !.ProjectKey = 0],
   [ValidBatch EXCEPT !.ProjectKey = 2],
   [ValidBatch EXCEPT !.EndDate = Timestamp(1)],
   [ValidBatch EXCEPT !.StartDate = Timestamp(2), !.EndDate = Timestamp(1)],
   [ValidBatch EXCEPT !.StartDate = Null],
   [ValidBatch EXCEPT !.EndDate = Null],
   [ValidBatch EXCEPT !.DenomValid = FALSE],
   [ValidBatch EXCEPT !.IssuerValid = FALSE]}

ValidStructure ==
  [ParamsValid |-> TRUE, Abbrev1 |-> "C", Abbrev2 |-> "C", ClassKey |-> 1,
   Batch1 |-> ValidBatch]

Flag(x) == IF x THEN 1 ELSE 0

\* the reference structure of a snapshot: params, two classes of credit
\* type "C", one project, two batches; at most two things are wrong in it
Structures ==
  {st \in [ParamsValid : BOOLEAN, Abbrev1 : {"C", "X", ""},
           Abbrev2 : {"C", "X"}, ClassKey : {0, 1, 3},
           Batch1 : BatchVariants] :
     Flag(~st.ParamsValid) + Flag(st.Abbrev1 # "C") + Flag(st.Abbrev2 # "C")
       + Flag(st.ClassKey # 1) + Flag(st.Batch1 # ValidBatch) <= 2}

DefaultHoldings ==
  [s1 |-> SupplyOf(DecStr(1, 0), DecStr(0, 0)), s2 |-> Absent,
   s3 |-> Absent,
   b11 |-> BalanceOf(DecStr(1, 0), DecStr(0, 0), EmptyStr), b12 |-> Absent,
   b21 |-> Absent, b23 |-> Absent, k1 |-> Absent, k2 |-> Absent,
   k9 |-> Absent]

\* supplies of batches 1 and 2 and of a batch 3 that is not there, balances
\* of holder h1 in batches 1 and 2 and of holder h2 in batch 1 or in
\* batch 3, basket balances of batches 1 and 2 and of a denom that names
\* no batch
Holdings ==
  {[s1 |-> s1, s2 |-> s2, s3 |-> s3, b11 |-> b11, b12 |-> b12,
    b21 |-> (IF x = 1 THEN BalanceOf(DecStr(1, 0), DecStr(0, 0), EmptyStr)
             ELSE Absent),
    b23 |-> (IF x = 3 THEN BalanceOf(DecStr(1, 0), DecStr(0, 0), EmptyStr)
             ELSE Absent),
    k1 |-> k1, k2 |-> k2, k9 |-> k9] :
     s1 \in {Absent, SupplyOf(DecStr(0, 0), DecStr(0, 0)),
             SupplyOf(DecStr(1, 0), DecStr(0, 0)),
             SupplyOf(DecStr(1, 0), DecStr(1, 0)),
             SupplyOf(DecStr(2, 0), EmptyStr),
             SupplyOf(DecStr(-1, 0), DecStr(2, 0))},
     s2 \in {Absent, SupplyOf(DecStr(0, 0), DecStr(0, 0)),
             SupplyOf(DecStr(1, 0), DecStr(0, 0))},
     s3 \in {Absent, SupplyOf(DecStr(1, 0), DecStr(0, 0))},
     b11 \in {Absent, BalanceOf(DecStr(1, 0), DecStr(0, 0), EmptyStr),
              BalanceOf(DecStr(1, 0), DecStr(1, 0), DecStr(0, 0)),
              BalanceOf(DecStr(0, 0), DecStr(0, 0), DecStr(0, 0)),
              BalanceOf(DecStr(5, 1), DecStr(0, 0), DecStr(5, 1))},
     b12 \in {Absent, BalanceOf(DecStr(1, 0), DecStr(0, 0), EmptyStr)},
     x \in {0, 1, 3},
     k1 \in {Absent, BasketOf(DecStr(1, 0))},
     k2 \in {Absent, BasketOf(DecStr(1, 0))},
     k9 \in {Absent, BasketOf(DecStr(1, 0))}}

Opt(x, rec) == IF x.present THEN <<rec>> ELSE <<>>

SupplyRecord(key, x) ==
  [BatchKey |-> key, TradableAmount |-> x.t, RetiredAmount |-> x.r]
BalanceRecord(address, key, x) ==
  [Address |-> address, BatchKey |-> key, TradableAmount |-> x.t,
   RetiredAmount |-> x.r, EscrowedAmount |-> x.e]
BasketRecord(denom, x) == [BatchDenom |-> denom, Balance |-> x.a]

\* the tables of a snapshot, every table in primary key order
Snapshot(st, h) ==
  [ParamsValid |-> st.ParamsValid,
   CreditType |-> <<[Abbreviation |-> "C", Precision |-> 2]>>,
   Class |-> <<[Key |-> 1, CreditTypeAbbrev |-> st.Abbrev1],
               [Key |-> 2, CreditTypeAbbrev |-> st.Abbrev2]>>,
   Project |-> <<[Key |-> 1, ClassKey |-> st.ClassKey]>>,
   Batch |-> <<BatchRecord(1, "B1", st.Batch1),
               BatchRecord(2, "B2", ValidBatch)>>,
   BatchSupply |-> Opt(h.s1, SupplyRecord(1, h.s1))
                     \o Opt(h.s2, SupplyRecord(2, h.s2))
                     \o Opt(h.s3, SupplyRecord(3, h.s3)),
   BatchBalance |-> Opt(h.b11, BalanceRecord("h1", 1, h.b11))
                      \o Opt(h.b12, BalanceRecord("h1", 2, h.b12))
                      \o Opt(h.b21, BalanceRecord("h2", 1, h.b21))
                      \o Opt(h.b23, BalanceRecord("h2", 3, h.b23)),
   BasketBalance |-> Opt(h.k1, BasketRecord("B1", h.k1))
                       \o Opt(h.k2, BasketRecord("B2", h.k2))
                       \o Opt(h.k9, BasketRecord("B9", h.k9))]

Snapshots ==
  {Snapshot(st, DefaultHoldings) : st \in Structures}
    \cup {Snapshot(ValidStructure, h) : h \in Holdings}

\* the message handlers are idle on an empty store
HandlersIdle ==
  /\ balance = [h \in Holders |-> [b \in Batches |-> NoRecord]]
  /\ supply = [b \in Batches |->
                 BatchSupply(DecStr(0, 0), DecStr(0, 0), DecStr(0, 0))]
  /\ basket = [b \in Batches |-> DecStr(0, 0)]
  /\ pc = "idle"
  /\ req = NoReq
  /\ idx = 0
  /\ entry = NoEntry
  /\ err = ""
  /\ ret = "none"
  /\ log = <<>>
  /\ callPre = [balance |-> balance, supply |-> supply]
  /\ entryPre = [balance |-> balance, supply |-> supply]

handlerVars == <<balance, supply, basket, pc, req, idx, entry, err, ret, log,
                 callPre, entryPre>>

\* ValidateGenesis is entered with the snapshot; its maps are empty
GenesisInit ==
  /\ HandlersIdle
  /\ createProject = NoCall
  /\ randomExponent = NoCall
  /\ \E data \in Snapshots :
       genesis = [pc |-> "params", data |-> data, err |-> NoErr,
                  abbrevToPrecision |-> EmptyMap,
                  projectKeyToClassKey |-> EmptyMap,
                  batchIdToPrecision |-> EmptyMap,
                  batchDenomToIdMap |-> EmptyMap,
                  batchIdToSupply |-> EmptyMap,
                  batchIdToCalSupply |-> EmptyMap]

\* ValidateGenesis returns the error
Fail(e) == [genesis EXCEPT !.pc = "done", !.err = e]

\* params.Validate
GenesisParams ==
  /\ genesis.pc = "params"
  /\ genesis' = IF genesis.data.ParamsValid
                THEN [genesis EXCEPT !.pc = "import"]
                ELSE Fail(GErr("params", "invalid params"))
  /\ UNCHANGED <<handlerVars, createProject, randomExponent>>

\* ImportJSON and ValidateJSON: every record passes validateMsg, or the
\* error of a record that does not is returned
GenesisImport ==
  /\ genesis.pc = "import"
  /\ LET errs == ValidateJSON(genesis.data) IN
     IF errs = {} THEN genesis' = [genesis EXCEPT !.pc = "creditTypes"]
     ELSE \E e \in errs : genesis' = Fail(e)
  /\ UNCHANGED <<handlerVars, createProject, randomExponent>>

GenesisCreditTypes ==
  /\ genesis.pc = "creditTypes"
  /\ genesis' = [genesis EXCEPT
                   !.pc = "classes",
                   !.abbrevToPrecision =
                     CreditTypesLoop(genesis.data.CreditType, 1, EmptyMap)]
  /\ UNCHANGED <<handlerVars, createProject, randomExponent>>

GenesisClasses ==
  /\ genesis.pc = "classes"
  /\ LET e == ClassesLoop(genesis.data.Class, 1, genesis.abbrevToPrecision)
     IN genesis' = IF e # NoErr THEN Fail(e)
                   ELSE [genesis EXCEPT !.pc = "projects"]
  /\ UNCHANGED <<handlerVars, createProject, randomExponent>>

GenesisProjects ==
  /\ genesis.pc = "projects"
  /\ genesis' = [genesis EXCEPT
                   !.pc = "batches",
                   !.projectKeyToClassKey =
                     ProjectsLoop(genesis.data.Project, 1, EmptyMap)]
  /\ UNCHANGED <<handlerVars, createProject, randomExponent>>

GenesisBatches ==
  /\ genesis.pc = "batches"
  /\ LET st == BatchesLoop(genesis, genesis.data.Batch, 1,
                 [err |-> NoErr, batchIdToPrecision |-> EmptyMap,
                  batchDenomToIdMap |-> EmptyMap])
     IN genesis' = [genesis EXCEPT
                      !.pc = IF st.err # NoErr THEN "done" ELSE "supplies",
                      !.err = st.err,
                      !.batchIdToPrecision = st.batchIdToPrecision,
                      !.batchDenomToIdMap = st.batchDenomToIdMap]
  /\ UNCHANGED <<handlerVars, createProject, randomExponent>>

GenesisSupplies ==
  /\ genesis.pc = "supplies"
  /\ LET st == SuppliesLoop(genesis.data.BatchSupply, 1,
                 genesis.batchIdToPrecision, [err |-> NoErr, m |-> EmptyMap])
     IN genesis' = [genesis EXCEPT
                      !.pc = IF st.err # NoErr THEN "done" ELSE "balances",
                      !.err = st.err,
                      !.batchIdToSupply = st.m]
  /\ UNCHANGED <<handlerVars, createProject, randomExponent>>

GenesisBalances ==
  /\ genesis.pc = "balances"
  /\ LET st == calculateSupply(genesis.data.BatchBalance, 1,
                 genesis.batchIdToPrecision, [err |-> NoErr, m |-> EmptyMap])
     IN genesis' = [genesis EXCEPT
                      !.pc = IF st.err # NoErr THEN "done" ELSE "baskets",
                      !.err = st.err,
                      !.batchIdToCalSupply = st.m]
  /\ UNCHANGED <<handlerVars, createProject, randomExponent>>

GenesisBaskets ==
  /\ genesis.pc = "baskets"
  /\ LET st == BasketsLoop(genesis.data.BasketBalance, 1,
                 genesis.batchDenomToIdMap,
                 [err |-> NoErr, m |-> genesis.batchIdToCalSupply])
     IN genesis' = [genesis EXCEPT
                      !.pc = IF st.err # NoErr THEN "done"
                             ELSE "validateSupply",
                      !.err = st.err,
                      !.batchIdToCalSupply = st.m]
  /\ UNCHANGED <<handlerVars, createProject, randomExponent>>

GenesisValidateSupply ==
  /\ genesis.pc = "validateSupply"
  /\ \E e \in validateSupply(genesis.batchIdToCalSupply,
                             genesis.batchIdToSupply) :
       genesis' = Fail(e)
  /\ UNCHANGED <<handlerVars, createProject, randomExponent>>

GenesisNext ==
  \/ GenesisParams
  \/ GenesisImport
  \/ GenesisCreditTypes
  \/ GenesisClasses
  \/ GenesisProjects
  \/ GenesisBatches
  \/ GenesisSupplies
  \/ GenesisBalances
  \/ GenesisBaskets
  \/ GenesisValidateSupply

GenesisSpec == GenesisInit /\ [][GenesisNext]_vars

\* ------------------------------------------- what a snapshot says by itself
RECURSIVE SumSeq(_, _)
SumSeq(decs, i) ==
  IF i > Len(decs) THEN ZeroDec ELSE Add(decs[i], SumSeq(decs, i + 1))

Range(seq) == {seq[i] : i \in 1..Len(seq)}

Done     == genesis.pc = "done"
Accepted == Done /\ genesis.err = NoErr
Snap     == genesis.data

BatchKeys(data) == {b.Key : b \in Range(data.Batch)}

\* the batch's project and that project's class are in the snapshot
Resolves(data, batch) ==
  \E q \in Range(data.Project) :
    /\ q.Key = batch.ProjectKey
    /\ \E c \in Range(data.Class) : c.Key = q.ClassKey

\* the precision of the credit type of the batch's class
SnapshotPrecision(data, key) ==
  LET batch == CHOOSE b \in Range(data.Batch) : b.Key = key
      q     == CHOOSE x \in Range(data.Project) : x.Key = batch.ProjectKey
      c     == CHOOSE x \in Range(data.Class) : x.Key = q.ClassKey
      ct    == CHOOSE x \in Range(data.CreditType) :
                 x.Abbreviation = c.CreditTypeAbbrev
  IN ct.Precision

AmountOk(str, p) == str = EmptyStr \/ AmountKind(str, p) = ""

\* tradable + retired of the BatchSupply record of a batch
Declared(data, key) ==
  LET bs == CHOOSE x \in Range(data.BatchSupply) : x.BatchKey = key
  IN Add(ValueOf(bs.TradableAmount), ValueOf(bs.RetiredAmount))

HasSupply(data, key) == \E x \in Range(data.BatchSupply) : x.BatchKey = key
HasBalance(data, key) == \E x \in Range(data.BatchBalance) : x.BatchKey = key
HasBasket(data, key) ==
  \E x \in Range(data.BasketBalance) : \E b \in Range(data.Batch) :
    b.Key = key /\ b.Denom = x.BatchDenom

\* the sum over the batch's BatchBalance records of tradable + retired +
\* escrowed, plus its BasketBalance amounts
Calculated(data, key) ==
  LET held == [i \in 1..Len(data.BatchBalance) |->
                 LET x == data.BatchBalance[i] IN
                 IF x.BatchKey = key
                 THEN Add(Add(ValueOf(x.TradableAmount),
                              ValueOf(x.RetiredAmount)),
                          ValueOf(x.EscrowedAmount))
                 ELSE ZeroDec]
      inBaskets == [i \in 1..Len(data.BasketBalance) |->
                      LET x == data.BasketBalance[i] IN
                      IF \E b \in Range(data.Batch) :
                           b.Key = key /\ b.Denom = x.BatchDenom
                      THEN ValueOf(x.Balance)
                      ELSE ZeroDec]
  IN Add(SumSeq(held, 1), SumSeq(inBaskets, 1))

\* params and records are valid, every reference resolves, every amount is
\* a non-negative number within the precision of its batch
WellFormedSnapshot(data) ==
  /\ data.ParamsValid
  /\ ValidateJSON(data) = {}
  /\ \A c \in Range(data.Class) :
       \E ct \in Range(data.CreditType) :
         ct.Abbreviation = c.CreditTypeAbbrev
  /\ \A b \in Range(data.Batch) : Resolves(data, b)
  /\ \A x \in Range(data.BatchSupply) :
       /\ x.BatchKey \in BatchKeys(data)
       /\ AmountOk(x.TradableAmount, SnapshotPrecision(data, x.BatchKey))
       /\ AmountOk(x.RetiredAmount, SnapshotPrecision(data, x.BatchKey))
  /\ \A x \in Range(data.BatchBalance) :
       /\ x.BatchKey \in BatchKeys(data)
       /\ AmountOk(x.TradableAmount, SnapshotPrecision(data, x.BatchKey))
       /\ AmountOk(x.RetiredAmount, SnapshotPrecision(data, x.BatchKey))
       /\ AmountOk(x.EscrowedAmount, SnapshotPrecision(data, x.BatchKey))
  /\ \A x \in Range(data.BasketBalance) :
       /\ \E b \in Range(data.Batch) : b.Denom = x.BatchDenom
       /\ x.Balance.s = "dec" /\ x.Balance.c >= 0

\* C23: ValidateGenesis returns no error only if, for every batch that has
\* a BatchSupply record, tradable + retired of that record equals the sum
\* of the batch's BatchBalance records (tradable + retired + escrowed) plus
\* its BasketBalance amounts; so a batch with a non-zero declared supply
\* and no balance of either kind is rejected, whatever other batches hold.
C23_GenesisSoundness ==
  Accepted =>
    \A x \in Range(Snap.BatchSupply) :
      Eq(Declared(Snap, x.BatchKey), Calculated(Snap, x.BatchKey))

\* the snapshot has supply records but no balance of either kind
SupplyOnly(data) ==
  /\ data.BatchSupply # <<>>
  /\ data.BatchBalance = <<>>
  /\ data.BasketBalance = <<>>

\* the snapshot has balances but no supply record
BalancesOnly(data) ==
  /\ data.BatchSupply = <<>>
  /\ data.BatchBalance # <<>>

\* C24: a well-formed snapshot with BatchSupply records and no balance of
\* either kind is refused with 'batch supply was given but no balances
\* were found', one with balances and no BatchSupply record with 'batch
\* balances were given but no supplies were found'.
C24_GenesisFastPath ==
  (Done /\ WellFormedSnapshot(Snap)) =>
    /\ SupplyOnly(Snap) =>
         genesis.err =
           GErr("ErrInvalidRequest",
                "batch supply was given but no balances were found")
    /\ BalancesOnly(Snap) =>
         genesis.err =
           GErr("ErrInvalidRequest",
                "batch balances were given but no supplies were found")

\* every batch with a supply record holds what the record declares, and a
\* batch without one holds nothing
Consistent(data) ==
  \A k \in BatchKeys(data) :
    IF HasSupply(data, k)
    THEN Eq(Declared(data, k), Calculated(data, k))
    ELSE ~HasBalance(data, k) /\ ~HasBasket(data, k)

\* C25: every BasketBalance counts for the batch its denom names, and a
\* batch without BatchBalance records counts from zero: a well-formed,
\* consistent snapshot that has balances passes, also when a batch's whole
\* declared supply is held in baskets; and when the comparison is reached
\* the calculated supply of every batch that holds something is the sum of
\* its BatchBalance and BasketBalance amounts.
C25_GenesisBaskets ==
  /\ (Done /\ WellFormedSnapshot(Snap) /\ Consistent(Snap)
        /\ ~SupplyOnly(Snap)) => genesis.err = NoErr
  /\ genesis.pc = "validateSupply" =>
       \A k \in BatchKeys(Snap) :
         (HasBalance(Snap, k) \/ HasBasket(Snap, k)) =>
           /\ k \in DOMAIN genesis.batchIdToCalSupply
           /\ Eq(genesis.batchIdToCalSupply[k], Calculated(Snap, k))

\* some class names a credit type the snapshot has no record of
UnknownCreditType(data) ==
  \E c \in Range(data.Class) :
    \A ct \in Range(data.CreditType) :
      ct.Abbreviation # c.CreditTypeAbbrev

\* C26: a snapshot in which some class references a credit type
\* abbreviation without a CreditType record is refused, with kind NotFound
\* when its params and records are valid.
C26_GenesisClassReference ==
  (Done /\ UnknownCreditType(Snap)) =>
    /\ genesis.err # NoErr
    /\ (Snap.ParamsValid /\ ValidateJSON(Snap) = {}) =>
         genesis.err.kind = "ErrNotFound"

\* the second class of an otherwise valid snapshot references an unknown
\* credit type and the snapshot has been refused with NotFound
C26_Witness ==
  /\ Done
  /\ Snap.Class[1].CreditTypeAbbrev = "C"
  /\ Snap.Class[2].CreditTypeAbbrev = "X"
  /\ genesis.err.kind = "ErrNotFound"

\* C27: a snapshot in which the project key of some batch does not resolve
\* to a class (no such project, or no such class) is refused, and at no
\* point has such a batch a precision.
C27_GenesisBatchReference ==
  /\ (Done /\ \E b \in Range(Snap.Batch) : ~Resolves(Snap, b)) =>
       genesis.err # NoErr
  /\ genesis.pc # "none" =>
       \A b \in Range(Snap.Batch) :
         ~Resolves(Snap, b) => b.Key \notin DOMAIN genesis.batchIdToPrecision

\* the class lookup of a batch failed: its project is not in the snapshot,
\* or its project's class is not
C27_Witness ==
  /\ Done
  /\ genesis.err = GErr("orm.NotFound", "class")
  /\ \E b \in Range(Snap.Batch) : ~Resolves(Snap, b)
  /\ genesis.batchDenomToIdMap # EmptyMap

\* the end date of the batch is there and strictly after its start date
DatesInOrder(b) ==
  /\ b.StartDate.set
  /\ b.EndDate.set
  /\ b.EndDate.Seconds > b.StartDate.Seconds

StrOf(chars, bytes) == [chars |-> chars, bytes |-> bytes]

\* len of a Go string: its bytes
len(s) == s.bytes

MaxReferenceIdLength == 32
MaxMetadataLength    == 256

\* sdk.AccAddressFromBech32: the addresses that decode
AccAddressFromBech32(address) == address \in Holders

\* ValidateClassId: "A00" and "A01" are class ids, "ABCD" is not
ValidateClassId(classId) ==
  IF classId \in {"A00", "A01"} THEN NoErr
  ELSE GErr("ErrParseFailure", "class id")

\* ValidateJurisdiction: a country code, then optionally a sub-national
\* code, then optionally a postal code
ValidateJurisdiction(jurisdiction) ==
  IF jurisdiction \in {"AB", "AB-CDE", "AB-CDE FG1 345"} THEN NoErr
  ELSE GErr("ErrInvalidRequest", "jurisdiction")

\* MsgCreateProject.ValidateBasic
ValidateBasic(m) ==
  IF ~AccAddressFromBech32(m.Admin) THEN GErr("ErrInvalidAddress", "admin")
  ELSE IF ValidateClassId(m.ClassId) # NoErr THEN ValidateClassId(m.ClassId)
  ELSE IF len(m.Metadata) > MaxMetadataLength
  THEN GErr("ErrMaxLimit", "create project metadata")
  ELSE IF ValidateJurisdiction(m.Jurisdiction) # NoErr
  THEN ValidateJurisdiction(m.Jurisdiction)
  ELSE IF m.ReferenceId # StrOf(0, 0)
          /\ len(m.ReferenceId) > MaxReferenceIdLength
  THEN GErr("ErrMaxLimit", "reference id")
  ELSE NoErr

\* the messages: the fields of the valid message and, for each, values
\* that fail its check or sit at its limit; a metadata and reference ids
\* of two-byte characters are among them
MsgCreateProjects ==
  [Admin        : {"h1", "invalid address"},
   ClassId      : {"A00", "A01", "ABCD"},
   Metadata     : {StrOf(5, 5), StrOf(256, 256), StrOf(257, 257),
                   StrOf(288, 288), StrOf(100, 200), StrOf(200, 400)},
   Jurisdiction : {"AB", "AB-CDE FG1 345", "abcd"},
   ReferenceId  : {StrOf(0, 0), StrOf(10, 10), StrOf(32, 32),
                   StrOf(33, 33), StrOf(16, 32), StrOf(20, 40)}]

\* ValidateBasic is called on a message
CreateProjectInit ==
  /\ HandlersIdle
  /\ genesis = NoGenesis
  /\ randomExponent = NoCall
  /\ \E m \in MsgCreateProjects :
       createProject = [pc |-> "call", msg |-> m, err |-> NoErr]

\* ValidateBasic returns
CreateProjectValidateBasic ==
  /\ createProject.pc = "call"
  /\ createProject' = [createProject EXCEPT
                         !.pc = "done",
                         !.err = ValidateBasic(createProject.msg)]
  /\ UNCHANGED <<handlerVars, genesis, randomExponent>>

CreateProjectNext == CreateProjectValidateBasic

CreateProjectSpec == CreateProjectInit /\ [][CreateProjectNext]_vars

\* the checks of the message in their order: which hold, and the error of
\* each
Checks(m) ==
  <<[ok  |-> AccAddressFromBech32(m.Admin),
     err |-> GErr("ErrInvalidAddress", "admin")],
    [ok  |-> ValidateClassId(m.ClassId) = NoErr,
     err |-> ValidateClassId(m.ClassId)],
    [ok  |-> len(m.Metadata) <= MaxMetadataLength,
     err |-> GErr("ErrMaxLimit", "create project metadata")],
    [ok  |-> ValidateJurisdiction(m.Jurisdiction) = NoErr,
     err |-> ValidateJurisdiction(m.Jurisdiction)],
    [ok  |-> m.ReferenceId.chars = 0
               \/ m.ReferenceId.chars <= MaxReferenceIdLength,
     err |-> GErr("ErrMaxLimit", "reference id")]>>

\* C30: ValidateBasic returns no error if and only if the admin is a valid
\* address, the class id is well-formed, the metadata is at most
\* MaxMetadataLength long, the jurisdiction is well-formed and the
\* reference id is empty or at most 32 characters long; otherwise it
\* returns the error of the first of these checks, in this order, that is
\* violated.
C30_CreateProjectValidateBasic ==
  createProject.pc = "done" =>
    LET checks == Checks(createProject.msg)
        failed == {i \in 1..Len(checks) : ~checks[i].ok}
    IN
    /\ createProject.err = NoErr <=> failed = {}
    /\ failed # {} =>
         createProject.err =
           checks[CHOOSE i \in failed : \A j \in failed : i <= j].err

\* ------------------------------------------- further claims on the handlers
\* the entry processed last allocates a non-zero amount to holder h
Allocates(h) ==
  /\ req.op = "Send"
  /\ h = req.Recipient
  /\ \/ ~IsZero(ValueOf(entry.TradableAmount))
     \/ ~IsZero(ValueOf(entry.RetiredAmount))

\* C31: a BatchBalance record that is there after an entry and was not there
\* before it is the record of the recipient of a Transfer entry with a
\* non-zero tradable or retired amount; so a Transfer entry with
\* tradableAmount = 0 and retiredAmount = 0 creates no record.
C31_CreatedByAllocation ==
  Processed =>
    \A h \in Holders : \A b \in Batches :
      (balance[h][b].exists /\ ~entryPre.balance[h][b].exists) =>
        (b = entry.BatchDenom /\ Allocates(h))

\* C32: a successful Transfer entry whose sender is its recipient leaves the
\* holder's tradable + retired total as it was: the tradable balance goes
\* down by the retired amount only, the retired balance goes up by it.
C32_SelfTransfer ==
  (req.op = "Send" /\ Succeeded /\ req.Sender = req.Recipient) =>
    LET h == req.Sender IN
    /\ Eq(Add(TradableOf(PostBal(h)), RetiredOf(PostBal(h))),
          Add(TradableOf(PreBal(h)), RetiredOf(PreBal(h))))
    /\ Eq(TradableOf(PostBal(h)),
          Sub(TradableOf(PreBal(h)), ValueOf(entry.RetiredAmount)))
    /\ Eq(RetiredOf(PostBal(h)),
          Add(RetiredOf(PreBal(h)), ValueOf(entry.RetiredAmount)))

\* C33: every BatchBalance record a successful entry writes (sender,
\* recipient, owner) has the escrowed amount it had before the entry.
C33_EscrowedFrame ==
  Succeeded =>
    \A h \in Involved :
      Eq(EscrowedOf(PostBal(h)), EscrowedOf(PreBal(h)))

\* the retired supply of every batch is the sum of the holders' retired
\* balances
RetiredMatches(tables) ==
  \A b \in Batches :
    Eq(ValueOf(tables.supply[b].RetiredAmount),
       SumDec([h \in Holders |-> RetiredOf(tables.balance[h][b])], Holders))

\* C34: if the retired supply of every batch equals the sum of the holders'
\* retired balances before an entry, it does so after the entry when the
\* entry succeeds, a Transfer to the sender itself included.
C34_RetiredPool ==
  (Succeeded /\ RetiredMatches(entryPre)) => RetiredMatches(Tables)

\* the records the entry processed last may write
EntryKeys ==
  {Write("BatchBalance", <<h, entry.BatchDenom>>) : h \in Involved}
    \cup {Write("BatchSupply", <<entry.BatchDenom>>)}

\* C35: an entry for batch B by holders S (and R) changes no BatchBalance
\* record other than (S, B) and (R, B) and no BatchSupply record other than
\* that of B, and it writes to no other record of any table.
C35_Locality ==
  Processed =>
    /\ \A h \in Holders : \A b \in Batches :
         (h \notin Involved \/ b # entry.BatchDenom) =>
           balance[h][b] = entryPre.balance[h][b]
    /\ \A b \in Batches :
         b # entry.BatchDenom => supply[b] = entryPre.supply[b]
    /\ \A j \in 1..Len(LastOut) :
         IsWrite(LastOut[j]) => LastOut[j] \in EntryKeys

\* a Transfer entry between two holders has changed their records and the
\* supply, while the third holder has a record and so has the other batch
C35_Witness ==
  /\ req.op = "Send" /\ Succeeded
  /\ req.Sender # req.Recipient
  /\ PostBal(req.Sender) # PreBal(req.Sender)
  /\ PostBal(req.Recipient) # PreBal(req.Recipient)
  /\ PostSup # PreSup
  /\ \E h \in Holders \ Involved : balance[h][entry.BatchDenom].exists
  /\ \E b \in Batches \ {entry.BatchDenom} : balance[req.Sender][b].exists

\* the error kinds an entry fails with before it writes
EntryFailures ==
  {"ErrInvalidRequest", "ErrInsufficientCredits", "InvalidAmount",
   "PrecisionExceeded", "InsufficientBalance"}

\* C36: in the processing of one entry every read, parse and arithmetic
\* check is over before the first write, and an entry that fails (missing
\* batch, missing balance, invalid amount, exceeded precision, insufficient
\* balance) has written nothing and emitted no event for that entry.
C36_ValidateBeforeWrite ==
  Processed =>
    /\ IsValidate(LastOut[1])
    /\ \A j \in 2..Len(LastOut) : ~IsValidate(LastOut[j])
    /\ err # "" =>
         /\ err \in EntryFailures
         /\ WroteNothing
         /\ \A j \in 1..Len(LastOut) : ~IsEvent(LastOut[j])

\* a Transfer entry whose sender has no record for the batch has failed,
\* the recipient having none either
C36_Witness ==
  /\ req.op = "Send" /\ Processed
  /\ entry.BatchDenom \in Batches
  /\ err = "ErrInsufficientCredits"
  /\ ~PreBal(req.Sender).exists
  /\ ~PreBal(req.Recipient).exists

\* C37: a successful Transfer entry with retiredAmount > 0 writes the two
\* balances and the supply, then emits the Retire event, then the Transfer
\* event; the Retire event names the recipient as owner and carries the
\* entry's batch denom, retired amount and retirement jurisdiction.
C37_RetireOnReceiptEvent ==
  (req.op = "Send" /\ Succeeded /\ ~IsZero(ValueOf(entry.RetiredAmount))) =>
    /\ Len(LastOut) = 7
    /\ \A j \in 2..4 : IsWrite(LastOut[j])
    /\ IsEvent(LastOut[5]) /\ IsRetireEvent(LastOut[5].ev)
    /\ IsEvent(LastOut[6]) /\ IsTransferEvent(LastOut[6].ev)
    /\ LET ev == LastOut[5].ev IN
       /\ ev.Owner = req.Recipient
       /\ ev.BatchDenom = entry.BatchDenom
       /\ ev.Amount.s = "dec"
       /\ Eq(ValueOf(ev.Amount), ValueOf(entry.RetiredAmount))
       /\ ev.Jurisdiction = entry.RetirementJurisdiction

\* credits were retired on receipt by a recipient that is not the sender
C37_Witness ==
  /\ req.op = "Send" /\ Succeeded
  /\ req.Sender # req.Recipient
  /\ ~IsZero(ValueOf(entry.RetiredAmount))
  /\ \E j \in 1..Len(LastOut) :
       IsEvent(LastOut[j]) /\ IsRetireEvent(LastOut[j].ev)
         /\ LastOut[j].ev.Owner = req.Recipient

\* ------------------------------------------- further claims on the genesis
\* a BatchBalance or a BatchSupply record names a batch key that no Batch
\* record of the snapshot has
DanglingBalance(data) ==
  \E x \in Range(data.BatchBalance) : x.BatchKey \notin BatchKeys(data)
DanglingSupply(data) ==
  \E x \in Range(data.BatchSupply) : x.BatchKey \notin BatchKeys(data)

\* C38: a snapshot with a BatchBalance record or a BatchSupply record whose
\* batch key matches no Batch record is rejected.
C38_GenesisAmountReferences ==
  (Done /\ (DanglingBalance(Snap) \/ DanglingSupply(Snap))) =>
    genesis.err # NoErr

\* the results the supply comparison can return for the two maps, whatever
\* the order in which the keys of the calculated map are visited
ComparisonResults ==
  validateSupply(genesis.batchIdToCalSupply, genesis.batchIdToSupply)

\* C39: for a given snapshot the supply comparison has one result:
\* acceptance, or one kind of error, whatever the order in which the batch
\* keys of the calculated-supply map are visited.
C39_GenesisDeterminism ==
  genesis.pc = "validateSupply" =>
    \A e1 \in ComparisonResults : \A e2 \in ComparisonResults :
      e1.kind = e2.kind

\* ------------------------------------------------------------ RandomExponent
\* the list the exponent is drawn from
exponents == <<0, 1, 2, 3, 6, 9, 12, 15, 18, 21, 24>>

\* the precisions a credit type can have
Precisions == {0, 1, 2, 3, 6, 9, 12, 15, 18, 21, 24}

\* RandomExponent is called with a precision
RandomExponentInit ==
  /\ HandlersIdle
  /\ genesis = NoGenesis
  /\ createProject = NoCall
  /\ \E precision \in Precisions :
       randomExponent = [pc |-> "loop", precision |-> precision,
                         drawn |-> FALSE, x |-> 0]

\* one turn of the loop: r.Intn(len(exponents)) is i - 1; the exponent
\* drawn is returned if it is above the precision
RandomExponentDraw(i) ==
  /\ randomExponent.pc = "loop"
  /\ LET x == exponents[i] IN
     randomExponent' =
       [randomExponent EXCEPT
          !.drawn = TRUE, !.x = x,
          !.pc = IF x > randomExponent.precision THEN "done" ELSE "loop"]
  /\ UNCHANGED <<handlerVars, genesis, createProject>>

RandomExponentNext == \E i \in 1..Len(exponents) : RandomExponentDraw(i)

\* the random source picks each element of the list again and again
RandomExponentSpec ==
  /\ RandomExponentInit
  /\ [][RandomExponentNext]_vars
  /\ \A i \in 1..Len(exponents) : SF_vars(RandomExponentDraw(i))

\* C40: for every precision of the enumerated set, RandomExponent returns,
\* and what it returns is a member of the list strictly greater than the
\* precision.
C40_RandomExponent ==
  /\ <>(randomExponent.pc = "done")
  /\ [](randomExponent.pc = "done" =>
          /\ randomExponent.x \in Precisions
          /\ randomExponent.x > randomExponent.precision)

====
